---------------------------- MODULE Spec2Model ----------------------------
(***************************************************************************)
(* Transcript acquisition engine of the worker-py service:                 *)
(*   app/main.py                          (transcribe_endpoint)            *)
(*   app/services/youtube_transcript_service.py (native caption fetcher)   *)
(*   app/services/youtube_downloader.py   (audio download and cleanup)     *)
(*   app/services/whisper_transcriber.py  (recognition engine wrapper)     *)
(*                                                                         *)
(* Representation of text.  A Python str is a sequence of tokens.  A token *)
(* is a unit the code's regular expressions never split: a word of caption *)
(* text ("a", "b"), one whitespace character (" "), a whole inline style   *)
(* tag "<...>" (TagTok), a whole inline timestamp literal such as          *)
(* 00:00:01.000 (TsTok), or the literal "&nbsp;" (NbspTok).  Times are     *)
(* integers in milliseconds.  Language tags are sequences of characters.   *)
(***************************************************************************)
EXTENDS Integers, Sequences, FiniteSets, TLC

VARIABLES
    \* ---- caption markup parser (specification SpecParse)
    content,        \* the markup handed to _parse_vtt_content: a sequence of lines
    lang_code,      \* the language tag handed to _parse_vtt_content
    parsed,         \* what _parse_vtt_content returned
    ppc,            \* "input" before the call, "done" after it
    \* ---- caption track selection (specifications SpecTierA, SpecTierB)
    languages,          \* the preferred languages, in order
    manual_tracks,      \* tier A: languages that have a manually created track
    generated_tracks,   \* tier A: languages that have an auto-generated track
    subtitles,          \* tier B: keys of info['subtitles'], in dict order
    automatic_captions, \* tier B: keys of info['automatic_captions'], in dict order
    selected,           \* the track the tier selected
    spc,                \* "input" before the selection, "done" after it
    \* ---- acquisition orchestrator (specification Spec)
    req,                \* per request: position in transcribe_endpoint and its locals
    disk,               \* the files in the download directory (youtube_downloader.TEMP_DIR)
    tdisk,              \* the files in the caption directory (youtube_transcript_service.TEMP_DIR)
    whisper_transcriber, \* main.py's global: None or the id of a WhisperTranscriber
    instances,          \* the WhisperTranscriber objects created so far, by id
    \* ---- identifier resolver (specification SpecId)
    id_url,             \* the URL handed to extract_video_id
    id_result,          \* what extract_video_id returned
    ipc,                \* "input" before the call, "done" after it
    \* ---- age-based sweep of the download directory (specification SpecSweep)
    mtimes,             \* st_mtime of the files of the download directory, by file id
    sweep,              \* the running cleanup_old_files call: position and locals
    \* ---- /model/load, /model/unload, /health (specification SpecModel)
    admin,              \* the running model endpoint on the event loop, and its locals
    \* ---- calls observed from outside (specifications SpecCleanup, SpecReparse)
    calls,              \* the calls of YoutubeDownloader.cleanup made so far
    reparse,            \* parses run one after another on one service instance
    \* ---- the parser's loops, pass by pass (specification SpecScan)
    scan                \* the running _parse_vtt_content call: position and locals

parseVars == <<content, lang_code, parsed, ppc>>
selVars == <<languages, manual_tracks, generated_tracks, subtitles,
             automatic_captions, selected, spc>>

orchVars == <<req, disk, tdisk, whisper_transcriber, instances>>

idVars == <<id_url, id_result, ipc>>

sweepVars == <<mtimes, sweep>>

adminVars == <<admin>>

callVars == <<calls, reparse, scan>>

vars == <<content, lang_code, parsed, ppc, languages, manual_tracks,
          generated_tracks, subtitles, automatic_captions, selected, spc,
          req, disk, tdisk, whisper_transcriber, instances,
          id_url, id_result, ipc, mtimes, sweep, admin, calls, reparse, scan>>

(***************************************************************************)
(* Bounds of the model.                                                    *)
(***************************************************************************)
MaxLines == 6       \* longest markup, in lines
MaxLangs == 2       \* longest preferred-language list besides the default one
MaxTracks == 2      \* most subtitle tracks, and most automatic captions, of a video
NumRequests == 1    \* requests served, each on its own worker thread
MaxFiles == 2       \* files in the download directory when a sweep starts
MaxAdminOps == 2    \* calls of /model/load and /model/unload served
MaxReparseLines == 3    \* longest markup parsed twice, in lines
MaxCalls == 3           \* calls of cleanup made one after another
MaxScanLines == 4       \* longest markup scanned pass by pass, in lines

\* Python's None where the value, when present, is an object.
None == [tag |-> "None"]

\* Python's None where the value, when present, is a str: the code tests
\* these values by truth ("if not video_id", "if request.language"), which
\* None and the empty str both fail, so the empty str stands for both.
NoStr == ""         \* ... a str kept whole
NoTag == <<>>       \* ... a str kept as its characters

(***************************************************************************)
(* Generic sequence helpers.                                               *)
(***************************************************************************)
\* Every sequence over S of length at most n.
SeqsUpTo(S, n) == UNION {[1..k -> S] : k \in 0..n}

Last(s) == s[Len(s)]

\* str.startswith
startswith(s, p) == Len(p) <= Len(s) /\ SubSeq(s, 1, Len(p)) = p

(***************************************************************************)
(* URLs.  A URL is a sequence of atoms: a maximal run of identifier        *)
(* characters [0-9A-Za-z_-] (a word: its text w, its length n, and pre,    *)
(* the text of its first IdLen characters when it is longer than IdLen),   *)
(* or one other character (n = 0).  Within the vocabulary used here a      *)
(* word contains one of the code's literals only by being equal to it.     *)
(***************************************************************************)
IdLen == 11     \* {11} in the identifier patterns

Word(w, n) == [w |-> w, n |-> n, pre |-> ""]
LongWord(w, n, pre) == [w |-> w, n |-> n, pre |-> pre]
Ch(c) == [w |-> c, n |-> 0, pre |-> ""]

\* The first IdLen characters of a word of at least IdLen characters.
first_id_chars(a) == IF a.n = IdLen THEN a.w ELSE a.pre

\* "lit in url", lit given as the texts of consecutive atoms.
contains(url, lit) ==
    \E i \in 1..(Len(url) - Len(lit) + 1) :
        \A k \in 1..Len(lit) : url[i + k - 1].w = lit[k]

\* url.startswith(lit)
url_startswith(url, lit) ==
    Len(lit) <= Len(url) /\ \A k \in 1..Len(lit) : url[k].w = lit[k]

\* Position i holds a match of r'(?:v=|/)([0-9A-Za-z_-]{11})(?:[?&]|$)'.
match_v_or_slash(url, i) ==
    /\ url[i].n = IdLen
    /\ i > 1
    /\ \/ url[i - 1].w = "/"
       \/ url[i - 1].w = "=" /\ i > 2 /\ url[i - 2].w = "v"
    /\ i = Len(url) \/ url[i + 1].w \in {"?", "&"}

\* Position i holds the group of r'(?:<lit>)([0-9A-Za-z_-]{11})', lit given
\* as the texts of the atoms before it.
match_after(url, lit, i) ==
    /\ url[i].n >= IdLen
    /\ i > Len(lit)
    /\ \A k \in 1..Len(lit) : url[i - Len(lit) + k - 1].w = lit[k]

Min(S) == CHOOSE x \in S : \A y \in S : x <= y

\* The patterns of extract_video_id, in order, as the set of positions
\* each one matches at.
pattern_matches(url) ==
    << {i \in 1..Len(url) : match_v_or_slash(url, i)},
       {i \in 1..Len(url) : match_after(url, <<"youtu", ".", "be", "/">>, i)},
       {i \in 1..Len(url) : match_after(url, <<"embed", "/">>, i)},
       {i \in 1..Len(url) : match_after(url, <<"shorts", "/">>, i)},
       {i \in 1..Len(url) : match_after(url, <<"live", "/">>, i)} >>

\* extract_video_id of both services (the two bodies are the same): the
\* first pattern that matches, at its leftmost match; else the url itself if
\* it is a bare identifier; else nothing.
extract_video_id(url) ==
    LET m == pattern_matches(url)
        hits == {p \in 1..Len(m) : m[p] # {}}
    IN  IF url = <<>> THEN NoStr
        ELSE IF hits # {} THEN first_id_chars(url[Min(m[Min(hits)])])
        ELSE IF Len(url) = 1 /\ url[1].n = IdLen THEN url[1].w
        ELSE NoStr

\* YoutubeDownloader.validate_url
validate_url(url) ==
    \/ contains(url, <<"youtube", ".", "com", "/", "watch">>)
    \/ contains(url, <<"youtu", ".", "be", "/">>)
    \/ contains(url, <<"youtube", ".", "com", "/", "shorts", "/">>)
    \/ contains(url, <<"youtube", ".", "com", "/", "live", "/">>)

\* TranscribeRequest.validate_url
request_url_valid(url) ==
    \/ url_startswith(url, <<"http", ":", "/", "/">>)
    \/ url_startswith(url, <<"https", ":", "/", "/">>)

Https == <<Word("https", 5), Ch(":"), Ch("/"), Ch("/")>>
YoutubeCom == <<Word("www", 3), Ch("."), Word("youtube", 7), Ch("."), Word("com", 3), Ch("/")>>
VideoId == Word("abc12345678", IdLen)

UrlWatch     == Https \o YoutubeCom \o <<Word("watch", 5), Ch("?"), Word("v", 1), Ch("="), VideoId>>
UrlWatchFrag == UrlWatch \o <<Ch("#"), Word("t", 1), Ch("="), Word("10", 2)>>
UrlShort     == Https \o <<Word("youtu", 5), Ch("."), Word("be", 2), Ch("/"), VideoId>>
UrlEmbed     == Https \o YoutubeCom \o <<Word("embed", 5), Ch("/"), VideoId>>
UrlInstagram == Https \o <<Word("www", 3), Ch("."), Word("instagram", 9), Ch("."),
                           Word("com", 3), Ch("/"), Word("reel", 4), Ch("/"), Word("xyz", 3)>>
UrlOther     == Https \o <<Word("example", 7), Ch("."), Word("com", 3), Ch("/"), Word("x", 1)>>

(***************************************************************************)
(* Tokens of caption text.                                                 *)
(***************************************************************************)
SpaceTok == " "
TagTok   == "<c>"
TsTok    == "00:00:01.000"
NbspTok  == "&nbsp;"

\* str.strip(): drop leading and trailing whitespace.
RECURSIVE lstrip(_)
lstrip(s) == IF s # <<>> /\ Head(s) = SpaceTok THEN lstrip(Tail(s)) ELSE s

RECURSIVE rstrip(_)
rstrip(s) ==
    IF s # <<>> /\ Last(s) = SpaceTok THEN rstrip(SubSeq(s, 1, Len(s) - 1)) ELSE s

strip(s) == rstrip(lstrip(s))

\* re.sub(r'<[^>]+>', '', s)
sub_tags(s) == SelectSeq(s, LAMBDA t : t # TagTok)

\* re.sub(r'\d{1,2}:\d{2}:\d{2}[.,]\d{3}', '', s)
sub_inline_ts(s) == SelectSeq(s, LAMBDA t : t # TsTok)

\* re.sub(r'\s+', ' ', s): every run of whitespace becomes one space.
RECURSIVE sub_spaces(_)
sub_spaces(s) ==
    IF s = <<>> THEN <<>>
    ELSE IF Head(s) = SpaceTok
         THEN <<SpaceTok>> \o sub_spaces(lstrip(s))
         ELSE <<Head(s)>> \o sub_spaces(Tail(s))

\* The three cleaning substitutions applied to one text line of a cue.
clean_line(next_line) ==
    strip(sub_spaces(strip(sub_inline_ts(strip(sub_tags(next_line))))))

\* " ".join(parts)
RECURSIVE join(_)
join(parts) ==
    IF parts = <<>> THEN <<>>
    ELSE IF Len(parts) = 1 THEN parts[1]
         ELSE parts[1] \o <<SpaceTok>> \o join(Tail(parts))

(***************************************************************************)
(* Time strings.  A time string that time_pattern accepts is digits, an    *)
(* optional ':', digits, ':', seconds with milliseconds; split(':') gives  *)
(* three parts <<h, m, s>> or, when the optional ':' is absent, two parts  *)
(* <<hm, s>>.  The seconds part is kept in milliseconds.                   *)
(***************************************************************************)
_parse_time_str(time_str) ==
    IF Len(time_str) = 3
    THEN time_str[1] * 3600000 + time_str[2] * 60000 + time_str[3]
    ELSE IF Len(time_str) = 2
         THEN time_str[1] * 60000 + time_str[2]
         ELSE time_str[1]

(***************************************************************************)
(* Lines of markup.  A line on which time_pattern.search succeeds is a cue *)
(* header, kept as its two captured time strings; every other line is its  *)
(* token sequence.                                                         *)
(***************************************************************************)
CueLine(s, e) == [cue |-> TRUE, start_str |-> s, end_str |-> e]
TextLine(toks) == [cue |-> FALSE, toks |-> toks]

time_match(line) == line.cue

TranscriptionSegment(start, end, text) == [start |-> start, end |-> end, text |-> text]

TranscriptionResult(text, segments, language, duration) ==
    [tag |-> "Result", text |-> text, segments |-> segments,
     language |-> language, duration |-> duration]

\* The inner while loop (lines 129-151): accumulate the cleaned text lines
\* of one cue from index i on; returns the index the scan stops at and the
\* accumulated text_acc.
RECURSIVE cue_block(_, _, _)
cue_block(lines, i, text_acc) ==
    IF i > Len(lines) THEN [i |-> i, text_acc |-> text_acc]
    ELSE LET next_line == lines[i]
         IN  IF time_match(next_line) THEN [i |-> i, text_acc |-> text_acc]
             ELSE IF strip(next_line.toks) = <<>>
                  THEN [i |-> i + 1, text_acc |-> text_acc]
                  ELSE LET clean_text == clean_line(strip(next_line.toks))
                       IN  cue_block(lines, i + 1,
                              IF clean_text # <<>> /\ clean_text # <<NbspTok>>
                              THEN Append(text_acc, clean_text)
                              ELSE text_acc)

\* Lines 153-163 with the guard that suppresses a repeated text dropped.
emit_segment_nodedup(segments, start, end, segment_text) ==
    Append(segments, TranscriptionSegment(start, end, segment_text))

\* Lines 153-163: append the cue's segment unless its text repeats the text
\* of the last segment appended.
emit_segment(segments, start, end, segment_text) ==
    IF segments = <<>> \/ Last(segments).text # segment_text
    THEN Append(segments, TranscriptionSegment(start, end, segment_text))
    ELSE segments

\* The outer while loop (lines 112-165); full_text_parts is appended to
\* exactly when segments is, so it is recomputed from segments below.
RECURSIVE scan_lines(_, _, _)
scan_lines(lines, i, segments) ==
    IF i > Len(lines) THEN segments
    ELSE LET line == lines[i]
         IN  IF time_match(line)
             THEN LET current_start == _parse_time_str(line.start_str)
                      current_end   == _parse_time_str(line.end_str)
                      blk           == cue_block(lines, i + 1, <<>>)
                  IN  scan_lines(lines, blk.i,
                         IF blk.text_acc # <<>>
                         THEN emit_segment(segments, current_start, current_end,
                                           join(blk.text_acc))
                         ELSE segments)
             ELSE scan_lines(lines, i + 1, segments)

\* Lines 170-174: drop consecutive repeats of the joined-text parts.
RECURSIVE unique_parts(_)
unique_parts(parts) ==
    IF Len(parts) <= 1 THEN parts
    ELSE LET rest == unique_parts(SubSeq(parts, 1, Len(parts) - 1))
         IN  IF Last(rest) # Last(parts) THEN Append(rest, Last(parts)) ELSE rest

\* Lines 167-183 with the test "if not segments: return None" left out.
_parse_vtt_content_no_empty_test(lines, lang) ==
    LET segments        == scan_lines(lines, 1, <<>>)
        full_text_parts == [k \in 1..Len(segments) |-> segments[k].text]
    IN  TranscriptionResult(join(unique_parts(full_text_parts)), segments, lang,
                            IF segments # <<>> THEN Last(segments).end ELSE 0)

\* Lines 167-183.
_parse_vtt_content(lines, lang) ==
    LET segments        == scan_lines(lines, 1, <<>>)
        full_text_parts == [k \in 1..Len(segments) |-> segments[k].text]
    IN  IF segments = <<>> THEN None
        ELSE TranscriptionResult(join(unique_parts(full_text_parts)), segments,
                                 lang, Last(segments).end)

(***************************************************************************)
(* Language tags, as character sequences (str.startswith reads them).      *)
(***************************************************************************)
LangEs    == <<"e", "s">>
LangEn    == <<"e", "n">>
LangFr    == <<"f", "r">>
LangEs419 == <<"e", "s", "-", "4", "1", "9">>
LangEnUS  == <<"e", "n", "-", "U", "S">>

\* main.py line 155 and get_transcript line 456: ['es', 'en', 'es-419', 'en-US']
DefaultLanguages == <<LangEs, LangEn, LangEs419, LangEnUS>>

LangTags == {LangEs, LangEn, LangEs419, LangFr}

\* The preferred-language lists a caller passes: one requested language,
\* the default list, or any other short list.
LanguageLists == {DefaultLanguages} \cup SeqsUpTo(LangTags, MaxLangs)

Range(s) == {s[k] : k \in 1..Len(s)}

(***************************************************************************)
(* Tier A selection (_fetch_with_transcript_api, lines 200-233).           *)
(* A TranscriptList holds at most one manually created and at most one     *)
(* generated track per language code; find_*_transcript([lang]) returns    *)
(* the track of that language or raises NoTranscriptFound.                 *)
(***************************************************************************)
Track(kind, lang) == [tag |-> "Track", kind |-> kind, language_code |-> lang]

\* transcript_list.find_manually_created_transcript([lang]); None stands for
\* the NoTranscriptFound it raises, which the caller catches (lines 210-211).
find_manually_created_transcript(manual, lang) ==
    IF lang \in manual THEN Track("manual", lang) ELSE None

\* transcript_list.find_generated_transcript([lang]); None as above (221-222).
find_generated_transcript(generated, lang) ==
    IF lang \in generated THEN Track("generated", lang) ELSE None

\* The first language of langs, from index k on, for which find(lang) finds
\* a track: the loops "for lang in languages: try ... break / continue".
RECURSIVE first_manual(_, _, _)
first_manual(manual, langs, k) ==
    IF k > Len(langs) THEN None
    ELSE IF find_manually_created_transcript(manual, langs[k]) # None
         THEN find_manually_created_transcript(manual, langs[k])
         ELSE first_manual(manual, langs, k + 1)

RECURSIVE first_generated(_, _, _)
first_generated(generated, langs, k) ==
    IF k > Len(langs) THEN None
    ELSE IF find_generated_transcript(generated, langs[k]) # None
         THEN find_generated_transcript(generated, langs[k])
         ELSE first_generated(generated, langs, k + 1)

\* transcript_list.find_transcript(languages): per language, the manually
\* created track, else the generated one.
RECURSIVE find_transcript(_, _, _, _)
find_transcript(manual, generated, langs, k) ==
    IF k > Len(langs) THEN None
    ELSE IF langs[k] \in manual THEN Track("manual", langs[k])
         ELSE IF langs[k] \in generated THEN Track("generated", langs[k])
              ELSE find_transcript(manual, generated, langs, k + 1)

\* Tier A selection with one pass per language (manual, else generated, of
\* the same language) in place of the two passes of the code.
select_transcript_per_language(manual, generated, langs) ==
    find_transcript(manual, generated, langs, 1)

\* Lines 200-233: the manual pass, then the generated pass, then
\* find_transcript; None when all three find nothing (return None, line 233).
select_transcript(manual, generated, langs) ==
    IF first_manual(manual, langs, 1) # None
    THEN first_manual(manual, langs, 1)
    ELSE IF first_generated(generated, langs, 1) # None
         THEN first_generated(generated, langs, 1)
         ELSE find_transcript(manual, generated, langs, 1)

(***************************************************************************)
(* Tier B selection (_fetch_with_ytdlp, lines 348-377).                    *)
(***************************************************************************)
\* {**subtitles, **auto_subs}: the keys of the merged dict, in dict order.
merged_keys(subs, auto) == subs \o SelectSeq(auto, LAMBDA k : k \notin Range(subs))

\* The inner loop, lines 367-370: the first available key that starts with lang.
RECURSIVE first_startswith(_, _, _)
first_startswith(keys, lang, j) ==
    IF j > Len(keys) THEN NoTag
    ELSE IF startswith(keys[j], lang) THEN keys[j]
         ELSE first_startswith(keys, lang, j + 1)

\* The outer loop, lines 362-372: per preferred language, the exact key,
\* else the first key that starts with it.
RECURSIVE scan_languages(_, _, _)
scan_languages(keys, langs, k) ==
    IF k > Len(langs) THEN NoTag
    ELSE IF langs[k] \in Range(keys) THEN langs[k]
         ELSE IF first_startswith(keys, langs[k], 1) # NoTag
              THEN first_startswith(keys, langs[k], 1)
              ELSE scan_languages(keys, langs, k + 1)

\* The first preferred language that is itself an available key.
RECURSIVE first_exact(_, _, _)
first_exact(keys, langs, k) ==
    IF k > Len(langs) THEN NoTag
    ELSE IF langs[k] \in Range(keys) THEN langs[k]
         ELSE first_exact(keys, langs, k + 1)

\* The first available key that starts with a preferred language, scanning
\* the preferred languages in order.
RECURSIVE first_prefix(_, _, _)
first_prefix(keys, langs, k) ==
    IF k > Len(langs) THEN NoTag
    ELSE IF first_startswith(keys, langs[k], 1) # NoTag
         THEN first_startswith(keys, langs[k], 1)
         ELSE first_prefix(keys, langs, k + 1)

\* Tier B selection with an exact pass over the whole list before any
\* prefix pass, in place of the single interleaved pass of the code.
select_language_two_pass(keys, langs) ==
    IF keys = <<>> THEN NoTag
    ELSE IF first_exact(keys, langs, 1) # NoTag THEN first_exact(keys, langs, 1)
         ELSE IF first_prefix(keys, langs, 1) # NoTag THEN first_prefix(keys, langs, 1)
              ELSE keys[1]

\* Lines 354-377: nothing when nothing is available (return None, line 356),
\* else the key the scan selects, else the first available key.
select_language(keys, langs) ==
    IF keys = <<>> THEN NoTag
    ELSE IF scan_languages(keys, langs, 1) # NoTag
         THEN scan_languages(keys, langs, 1)
         ELSE keys[1]

(***************************************************************************)
(* Specifications SpecTierA and SpecTierB: the two selections applied to   *)
(* every preferred-language list and every set of available tracks.        *)
(***************************************************************************)
\* Sequences over S without repetition, of length at most n (a dict's keys).
KeySeqs(S, n) == {s \in SeqsUpTo(S, n) : \A i, j \in 1..Len(s) : i # j => s[i] # s[j]}

SelIdle ==
    /\ languages = <<>>
    /\ manual_tracks = {}
    /\ generated_tracks = {}
    /\ subtitles = <<>>
    /\ automatic_captions = <<>>
    /\ selected = None
    /\ spc = "off"

OrchIdle ==
    /\ req = <<>>
    /\ disk = {}
    /\ tdisk = {}
    /\ whisper_transcriber = None
    /\ instances = <<>>

ParseIdle ==
    /\ content = <<>>
    /\ lang_code = <<>>
    /\ parsed = None
    /\ ppc = "off"

IdIdle ==
    /\ id_url = <<>>
    /\ id_result = NoStr
    /\ ipc = "off"

\* No sweep runs and no model endpoint is being served.
SweepIdle ==
    /\ mtimes = <<>>
    /\ sweep = [pc |-> "off"]

AdminIdle == admin = [pc |-> "off"]

\* The parts of the service a specification of one component leaves out.
\* No call of cleanup is recorded and no second parse is run.
CallIdle == calls = <<>> /\ reparse = [pc |-> "off"] /\ scan = [pc |-> "off"]

RestIdle == IdIdle /\ SweepIdle /\ AdminIdle /\ CallIdle

restVars == <<idVars, sweepVars, adminVars, callVars>>

TierAInit ==
    /\ languages \in LanguageLists
    /\ manual_tracks \in SUBSET LangTags
    /\ generated_tracks \in SUBSET LangTags
    /\ subtitles = <<>>
    /\ automatic_captions = <<>>
    /\ selected = None
    /\ spc = "input"
    /\ ParseIdle
    /\ OrchIdle
    /\ RestIdle

SelectTierA ==
    /\ spc = "input"
    /\ selected' = select_transcript(manual_tracks, generated_tracks, languages)
    /\ spc' = "done"
    /\ UNCHANGED <<languages, manual_tracks, generated_tracks, subtitles,
                   automatic_captions>>
    /\ UNCHANGED parseVars
    /\ UNCHANGED orchVars
    /\ UNCHANGED restVars

TierANext == SelectTierA

SpecTierA == TierAInit /\ [][TierANext]_vars

TierBInit ==
    /\ languages \in LanguageLists
    /\ manual_tracks = {}
    /\ generated_tracks = {}
    /\ subtitles \in KeySeqs(LangTags, MaxTracks)
    /\ automatic_captions \in KeySeqs(LangTags, MaxTracks)
    /\ selected = NoTag
    /\ spc = "input"
    /\ ParseIdle
    /\ OrchIdle
    /\ RestIdle

SelectTierB ==
    /\ spc = "input"
    /\ selected' = select_language(merged_keys(subtitles, automatic_captions), languages)
    /\ spc' = "done"
    /\ UNCHANGED <<languages, manual_tracks, generated_tracks, subtitles,
                   automatic_captions>>
    /\ UNCHANGED parseVars
    /\ UNCHANGED orchVars
    /\ UNCHANGED restVars

TierBNext == SelectTierB

SpecTierB == TierBInit /\ [][TierBNext]_vars

(***************************************************************************)
(* Specification SpecParse: _parse_vtt_content applied to every markup of  *)
(* at most MaxLines lines over MarkupLines.                                *)
(***************************************************************************)
TimeA == <<0, 0, 1000>>     \* 00:00:01.000
TimeB == <<0, 0, 3000>>     \* 00:00:03.000
TimeC == <<1, 2000>>        \* 0001:02.000 (the optional ':' absent)

MarkupLines ==
    { CueLine(TimeA, TimeB), CueLine(TimeC, TimeA),
      TextLine(<<>>),
      TextLine(<<"a">>),
      TextLine(<<TagTok, "a", SpaceTok>>),
      TextLine(<<"b", SpaceTok, SpaceTok, TsTok, "a">>),
      TextLine(<<NbspTok>>) }

ParseInit ==
    /\ content \in SeqsUpTo(MarkupLines, MaxLines)
    /\ lang_code \in {LangEs}
    /\ parsed = None
    /\ ppc = "input"
    /\ SelIdle
    /\ OrchIdle
    /\ RestIdle

Parse ==
    /\ ppc = "input"
    /\ parsed' = _parse_vtt_content(content, lang_code)
    /\ ppc' = "done"
    /\ UNCHANGED <<content, lang_code>>
    /\ UNCHANGED selVars
    /\ UNCHANGED orchVars
    /\ UNCHANGED restVars

ParseNext == Parse

SpecParse == ParseInit /\ [][ParseNext]_vars

(***************************************************************************)
(* Specification SpecReparse: one service instance parses an earlier       *)
(* markup, then the same markup twice.  left_over is what the call before  *)
(* had in its segments list when it returned.                              *)
(***************************************************************************)
\* The segments list carried over from the call before.
segments_carried_over(left_over) == left_over

\* Lines 100-101: segments and full_text_parts are new empty lists in every
\* call, whatever the call before left.
segments_at_entry(left_over) == <<>>

\* _parse_vtt_content called after a call that left left_over.
_parse_vtt_content_after(left_over, lines, lang) ==
    LET segments        == scan_lines(lines, 1, segments_at_entry(left_over))
        full_text_parts == [k \in 1..Len(segments) |-> segments[k].text]
    IN  IF segments = <<>> THEN None
        ELSE TranscriptionResult(join(unique_parts(full_text_parts)), segments,
                                 lang, Last(segments).end)

\* The segments list a call ends with.
segments_left(lines, left_over) == scan_lines(lines, 1, segments_at_entry(left_over))

\* The markup of the earlier parse: none, or a track of one or two cues.
EarlierMarkups ==
    { <<>>,
      <<CueLine(TimeA, TimeB), TextLine(<<"a">>)>>,
      <<CueLine(TimeA, TimeB), TextLine(<<"b", SpaceTok, SpaceTok, TsTok, "a">>),
        CueLine(TimeC, TimeA), TextLine(<<"a">>)>> }

ReparseInit ==
    /\ content \in SeqsUpTo(MarkupLines, MaxReparseLines)
    /\ lang_code \in {LangEs}
    /\ parsed = None
    /\ ppc = "off"
    /\ \E earlier \in EarlierMarkups :
          reparse = [pc |-> "earlier", earlier |-> earlier, left_over |-> <<>>,
                     second |-> None]
    /\ calls = <<>>
    /\ scan = [pc |-> "off"]
    /\ SelIdle
    /\ OrchIdle
    /\ IdIdle
    /\ SweepIdle
    /\ AdminIdle

\* The earlier parse, of another markup.
ParseEarlier ==
    /\ reparse.pc = "earlier"
    /\ reparse' = [reparse EXCEPT !.pc = "first",
                                  !.left_over = segments_left(reparse.earlier, @)]
    /\ UNCHANGED <<parseVars, calls, scan>>
    /\ UNCHANGED <<selVars, orchVars, idVars, sweepVars, adminVars>>

\* The first run on the markup.
ParseFirst ==
    /\ reparse.pc = "first"
    /\ parsed' = _parse_vtt_content_after(reparse.left_over, content, lang_code)
    /\ reparse' = [reparse EXCEPT !.pc = "second",
                                  !.left_over = segments_left(content, @)]
    /\ UNCHANGED <<content, lang_code, ppc, calls, scan>>
    /\ UNCHANGED <<selVars, orchVars, idVars, sweepVars, adminVars>>

\* The second run on the same markup and language tag.
ParseSecond ==
    /\ reparse.pc = "second"
    /\ reparse' = [reparse EXCEPT
                      !.pc = "done",
                      !.second = _parse_vtt_content_after(reparse.left_over,
                                                          content, lang_code),
                      !.left_over = segments_left(content, @)]
    /\ UNCHANGED <<parseVars, calls, scan>>
    /\ UNCHANGED <<selVars, orchVars, idVars, sweepVars, adminVars>>

ReparseNext ==
    \/ ParseEarlier
    \/ ParseFirst
    \/ ParseSecond

SpecReparse == ReparseInit /\ [][ReparseNext]_vars

(***************************************************************************)
(* Specification SpecScan: one call of _parse_vtt_content, one pass of one *)
(* of its two while loops per step, on any markup of at most MaxScanLines  *)
(* lines over ScanLines.  Line indexes count from 1 (Python's i + 1).      *)
(***************************************************************************)
ScanLines ==
    { CueLine(TimeA, TimeB), CueLine(TimeC, TimeA),
      TextLine(<<>>),
      TextLine(<<"a">>),
      TextLine(<<TagTok, "a", SpaceTok>>),
      TextLine(<<TagTok>>),
      TextLine(<<NbspTok>>) }

\* Line 127 with the index left on the cue header.
after_header_stay(i) == i

\* Line 127: i += 1, past the cue header.
after_header(i) == i + 1

\* Line 147 with every cleaned line kept.
keep_clean_text_any(clean_text) == TRUE

\* Line 147: if clean_text and clean_text != '&nbsp;'.
keep_clean_text(clean_text) == clean_text # <<>> /\ clean_text # <<NbspTok>>

\* Line 163 moved out of the guard of line 157.
full_text_parts_unguarded(full_text_parts, appended, segment_text) ==
    Append(full_text_parts, segment_text)

\* Line 163: full_text_parts.append(segment_text), under the guard of line
\* 157 that also appends the segment.
full_text_parts_after(full_text_parts, appended, segment_text) ==
    IF appended THEN Append(full_text_parts, segment_text) ELSE full_text_parts

\* Lines 153-163, after the inner loop: the cue's segment.  origin records
\* the cue header every appended segment came from.
end_of_cue(sc) ==
    IF sc.text_acc = <<>> THEN sc
    ELSE LET segment_text == join(sc.text_acc)
             segments     == emit_segment(sc.segments, sc.current.start,
                                          sc.current.end, segment_text)
             appended     == segments # sc.segments
         IN  [sc EXCEPT !.segments = segments,
                        !.full_text_parts =
                            full_text_parts_after(@, appended, segment_text),
                        !.origin = IF appended THEN Append(@, sc.header) ELSE @]

ScanInit ==
    /\ content = <<>>
    /\ lang_code = LangEs
    /\ parsed = None
    /\ ppc = "off"
    /\ scan = [pc |-> "call", i |-> 1,
               current |-> None,    \* current_start and current_end: None, or
                                    \*   the times of the cue header read last
               text_acc |-> <<>>, segments |-> <<>>,
               full_text_parts |-> <<>>, unique_parts |-> <<>>,
               header |-> 0,        \* history: the cue header being read
               headers |-> {},      \* history: the lines read as cue headers
               origin |-> <<>>]     \* history: the header of each segment
    /\ calls = <<>>
    /\ reparse = [pc |-> "off"]
    /\ SelIdle
    /\ OrchIdle
    /\ IdIdle
    /\ SweepIdle
    /\ AdminIdle

\* The call, with its markup: lines 100-111.
ScanCall ==
    /\ scan.pc = "call"
    /\ content' \in SeqsUpTo(ScanLines, MaxScanLines)
    /\ scan' = [scan EXCEPT !.pc = "outer"]
    /\ UNCHANGED <<lang_code, parsed, ppc, calls, reparse>>
    /\ UNCHANGED <<selVars, orchVars, idVars, sweepVars, adminVars>>

\* One pass of the outer loop up to the inner loop: lines 112-127, 164-165.
ScanOuter ==
    /\ scan.pc = "outer"
    /\ scan.i <= Len(content)
    /\ LET line == content[scan.i]
       IN  scan' = IF time_match(line)
                   THEN [scan EXCEPT
                           !.current = [start |-> _parse_time_str(line.start_str),
                                        end |-> _parse_time_str(line.end_str)],
                           !.text_acc = <<>>,
                           !.header = scan.i,
                           !.headers = @ \cup {scan.i},
                           !.i = after_header(@),
                           !.pc = "inner"]
                   ELSE [scan EXCEPT !.i = @ + 1]
    /\ UNCHANGED <<parseVars, calls, reparse>>
    /\ UNCHANGED <<selVars, orchVars, idVars, sweepVars, adminVars>>

\* One pass of the inner loop, lines 129-151, and when the loop ends the
\* rest of the outer pass, lines 153-163.
ScanInner ==
    /\ scan.pc = "inner"
    /\ scan' =
         IF scan.i > Len(content)
         THEN [end_of_cue(scan) EXCEPT !.pc = "outer"]
         ELSE LET next_line == content[scan.i]
              IN  IF time_match(next_line)                          \* lines 140-141
                  THEN [end_of_cue(scan) EXCEPT !.pc = "outer"]
                  ELSE IF strip(next_line.toks) = <<>>                \* lines 135-137
                  THEN [end_of_cue([scan EXCEPT !.i = @ + 1]) EXCEPT !.pc = "outer"]
                  ELSE LET clean_text == clean_line(strip(next_line.toks))
                       IN  [scan EXCEPT
                              !.text_acc = IF keep_clean_text(clean_text)
                                           THEN Append(@, clean_text) ELSE @,
                              !.i = @ + 1]
    /\ UNCHANGED <<parseVars, calls, reparse>>
    /\ UNCHANGED <<selVars, orchVars, idVars, sweepVars, adminVars>>

\* After the outer loop: lines 167-183.
ScanReturn ==
    /\ scan.pc = "outer"
    /\ scan.i > Len(content)
    /\ LET parts == unique_parts(scan.full_text_parts)
       IN  /\ scan' = [scan EXCEPT
                         !.pc = "done",
                         !.unique_parts = IF scan.segments = <<>> THEN @ ELSE parts]
           /\ parsed' = IF scan.segments = <<>> THEN None
                        ELSE TranscriptionResult(join(parts), scan.segments,
                                                 lang_code, Last(scan.segments).end)
    /\ UNCHANGED <<content, lang_code, ppc, calls, reparse>>
    /\ UNCHANGED <<selVars, orchVars, idVars, sweepVars, adminVars>>

ScanNext ==
    \/ ScanCall
    \/ ScanOuter
    \/ ScanInner
    \/ ScanReturn

SpecScan == ScanInit /\ [][ScanNext]_vars

(***************************************************************************)
(* Specification SpecId: extract_video_id applied to one URL.  The URLs    *)
(* are the accepted shapes (watch, short link, shorts, live, embed, bare   *)
(* identifier) for two identifiers, under both schemes and three hosts,    *)
(* plain or carrying one more query parameter or path segment.             *)
(***************************************************************************)
Http == <<Word("http", 4), Ch(":"), Ch("/"), Ch("/")>>
Youtube == <<Word("youtube", 7), Ch("."), Word("com", 3), Ch("/")>>
MYoutube == <<Word("m", 1), Ch(".")>> \o Youtube
YoutuBe == <<Word("youtu", 5), Ch("."), Word("be", 2), Ch("/")>>
VideoId2 == Word("dQw4w9WgXcQ", IdLen)

IdAtoms == {VideoId, VideoId2}

\* One more parameter, t=10, after the separator sep.
Param(sep) == <<Ch(sep), Word("t", 1), Ch("="), Word("10", 2)>>

\* What follows the identifier of a path shape: nothing, a query, a
\* trailing slash, or one more path segment (short, or of IdLen characters).
PathSuffixes ==
    {<<>>, Param("?"), <<Ch("/")>>, <<Ch("/"), Word("x", 1)>>,
     <<Ch("/"), Word("fullscreen1", IdLen)>>}

\* .../watch?v=ID, .../watch?v=ID&t=10, .../watch?t=10&v=ID
WatchPaths(id) ==
    {<<Word("watch", 5), Ch("?"), Word("v", 1), Ch("="), id>> \o suffix :
        suffix \in {<<>>, Param("&")}}
    \cup {<<Word("watch", 5)>> \o Param("?") \o <<Ch("&"), Word("v", 1), Ch("="), id>>}

\* .../shorts/ID, .../live/ID, .../embed/ID and what may follow.
SegmentPaths(id) ==
    {<<Word("shorts", 6), Ch("/"), id>> \o suffix : suffix \in PathSuffixes}
    \cup {<<Word("live", 4), Ch("/"), id>> \o suffix : suffix \in PathSuffixes}
    \cup {<<Word("embed", 5), Ch("/"), id>> \o suffix : suffix \in PathSuffixes}

IdUrls ==
    {<<id>> : id \in IdAtoms}
    \cup {scheme \o host \o path :
            scheme \in {Http, Https}, host \in {Youtube, YoutubeCom, MYoutube},
            path \in UNION {WatchPaths(id) \cup SegmentPaths(id) : id \in IdAtoms}}
    \cup {scheme \o YoutuBe \o <<id>> \o suffix :
            scheme \in {Http, Https}, id \in IdAtoms, suffix \in PathSuffixes}

IdInit ==
    /\ id_url \in IdUrls
    /\ id_result = NoStr
    /\ ipc = "input"
    /\ ParseIdle
    /\ SelIdle
    /\ OrchIdle
    /\ SweepIdle
    /\ AdminIdle
    /\ CallIdle

Resolve ==
    /\ ipc = "input"
    /\ id_result' = extract_video_id(id_url)
    /\ ipc' = "done"
    /\ UNCHANGED id_url
    /\ UNCHANGED <<parseVars, selVars, orchVars, sweepVars, adminVars, callVars>>

IdNext == Resolve

SpecId == IdInit /\ [][IdNext]_vars

(***************************************************************************)
(* Python values and control flow.                                         *)
(***************************************************************************)
\* A local not yet assigned.
Unset == [tag |-> "Unset"]

\* How a call ends: it returns a value or raises an exception of a kind.
Ret(v) == [tag |-> "return", value |-> v]
Raise(e) == [tag |-> "raise", exc |-> e]

\* What the external calls of the caption tiers raise: the three kinds
\* _fetch_with_transcript_api names, and any other Exception.
CaptionErrors == {"TranscriptsDisabled", "VideoUnavailable", "NoTranscriptFound", "Exception"}

(***************************************************************************)
(* _fetch_with_transcript_api (tier A), around its two external calls      *)
(* list_transcripts and transcript.fetch.                                  *)
(***************************************************************************)
NlTok == "\n"

\* item.get('text', '').replace('\n', ' ').strip()
item_text(item) == strip([k \in 1..Len(item.text) |->
                            IF item.text[k] = NlTok THEN SpaceTok ELSE item.text[k]])

\* Lines 239-253: the segments of the fetched items, in the order fetched,
\* without the items whose text is empty.
RECURSIVE api_segments(_)
api_segments(data) ==
    IF data = <<>> THEN <<>>
    ELSE LET item == Head(data)
         IN  IF item_text(item) = <<>> THEN api_segments(Tail(data))
             ELSE <<TranscriptionSegment(item.start, item.start + item.duration,
                                         item_text(item))>>
                  \o api_segments(Tail(data))

\* Lines 255-265 with the duration taken from the first segment.
api_result_first_end(data, language_code) ==
    LET segments == api_segments(data)
    IN  IF segments = <<>> THEN None
        ELSE TranscriptionResult(join([k \in 1..Len(segments) |-> segments[k].text]),
                                 segments, language_code, Head(segments).end)

\* Lines 255-265.
api_result(data, language_code) ==
    LET segments == api_segments(data)
    IN  IF segments = <<>> THEN None
        ELSE TranscriptionResult(join([k \in 1..Len(segments) |-> segments[k].text]),
                                 segments, language_code, Last(segments).end)

\* The except clauses of _fetch_with_transcript_api with the last one,
\* "except Exception", left out.
tier_a_except_named_only(exc) ==
    IF exc \in {"TranscriptsDisabled", "VideoUnavailable", "NoTranscriptFound"}
    THEN Ret(None)
    ELSE Raise(exc)

\* Lines 267-278: every exception raised inside the outer try ends the tier
\* with "return None".
tier_a_except(exc) == Ret(None)

\* Lines 194-233, given how list_transcripts ended: the selected track, or
\* the tier's return.  A listing error is caught by the inner try (196-198).
tier_a_select(listing, langs) ==
    IF listing.tag = "raise" THEN Ret(None)
    ELSE LET transcript == select_transcript(listing.value.manual,
                                              listing.value.generated, langs)
         IN  IF transcript = None THEN Ret(None) ELSE [tag |-> "fetch", transcript |-> transcript]

\* Lines 236-278, given the selected track and how transcript.fetch ended.
tier_a_fetch(transcript, fetched) ==
    IF fetched.tag = "raise" THEN tier_a_except(fetched.exc)
    ELSE Ret(api_result(fetched.value, transcript.language_code))

(***************************************************************************)
(* _fetch_with_ytdlp (tier B), around its two external calls extract_info  *)
(* and urlopen.                                                            *)
(***************************************************************************)
\* Lines 424-426: "except Exception" ends the tier with "return None".
tier_b_except(exc) == Ret(None)

\* The removal loops with os.remove failing for every file.
remove_transient_none(files, video_id, remove_ok) == files

\* Lines 293-297 and 429-433: remove the caption directory's files whose
\* name starts with the video id; a removal that fails is passed over
\* ("except: pass") and its file stays.
remove_transient(files, video_id, remove_ok) ==
    IF remove_ok THEN {f \in files : f # video_id} ELSE files

\* Lines 344-397, given what extract_info returned: the selected language
\* when a subtitle URL was found for it, or the tier's return.
tier_b_select(info, langs) ==
    IF info = None THEN Ret(None)
    ELSE LET available == merged_keys(info.subtitles, info.automatic_captions)
             selected_lang == select_language(available, langs)
         IN  IF selected_lang = NoTag THEN Ret(None)
             ELSE IF info.formats = "none" THEN Ret(None)        \* not sub_info
             ELSE IF info.formats = "no_url" THEN Ret(None)      \* not sub_url
             ELSE [tag |-> "fetch", selected_lang |-> selected_lang]

\* Lines 409-422, given the selected language and what urlopen/read/decode gave.
tier_b_fetch(selected_lang, fetched) ==
    IF fetched.tag = "raise" THEN tier_b_except(fetched.exc)
    ELSE IF fetched.value = <<>> THEN Ret(None)                  \* not content
    ELSE Ret(_parse_vtt_content(fetched.value, selected_lang))

(***************************************************************************)
(* get_transcript and transcribe_endpoint: where control goes next.        *)
(***************************************************************************)
\* get_transcript, lines 467-474, with tier B tried whatever tier A returned.
after_tier_a_always_fallback(result) == "tier_b"

\* get_transcript, lines 467-474: return tier A's result if it has one,
\* else go on to tier B.
after_tier_a(result) == IF result # None THEN "return" ELSE "tier_b"

\* transcribe_endpoint, lines 164-201, with the early return left out.
after_get_transcript_no_return(native_transcript) == "download"

\* transcribe_endpoint, lines 164-201, raising when there is no native transcript.
after_get_transcript_raise(native_transcript) ==
    IF native_transcript # None THEN "video_info" ELSE "raise"

\* transcribe_endpoint, lines 164-201: with a native transcript, answer with
\* it; without one, go on to download_audio.
after_get_transcript(native_transcript) ==
    IF native_transcript # None THEN "video_info" ELSE "download"

\* main.py line 155
preferred_langs(language) == IF language # NoTag THEN <<language>> ELSE DefaultLanguages

\* The except clauses with every exception answered as the last clause does.
http_status_unexpected(exc) == 500

\* The except clauses of transcribe_endpoint, lines 241-255: the status of
\* the HTTPException raised for an exception of the try block.
http_status(exc) ==
    CASE exc = "ValueError" -> 400
      [] exc = "FileNotFoundError" -> 404
      [] exc = "RuntimeError" -> 500
      [] OTHER -> 500

ErrorResponse(exc) == [status |-> http_status(exc), exc |-> exc]

(***************************************************************************)
(* Specification Spec: transcribe_endpoint, one request per worker thread. *)
(* A step of a request runs its code up to and including its next external *)
(* call (caption API, yt-dlp, urlopen, model load, decoding) or its next   *)
(* access to state other requests share.                                   *)
(***************************************************************************)
Requests == 1..NumRequests

Platforms == {"auto", "youtube", "instagram"}

\* The URLs requests carry; all pass TranscribeRequest.validate_url.
RequestUrls == {UrlWatch, UrlWatchFrag, UrlEmbed, UrlInstagram, UrlOther}

\* request.language: absent, or one language.
RequestLanguages == {NoTag, LangEn}

\* What list_transcripts gives: an error, or the languages that have a
\* manually created track and those that have a generated one.
Listings ==
    {Raise(e) : e \in CaptionErrors}
    \cup {Ret([manual |-> m, generated |-> g]) : m, g \in SUBSET {LangEs, LangEn}}

Item(text, start, duration) == [text |-> text, start |-> start, duration |-> duration]

\* What transcript.fetch gives: an error, or the items of the track.
Fetches ==
    {Raise(e) : e \in CaptionErrors}
    \cup {Ret(<<>>),
          Ret(<<Item(<<SpaceTok>>, 0, 1000)>>),
          Ret(<<Item(<<"a", NlTok, "b">>, 0, 1000), Item(<<"b">>, 1000, 2000)>>)}

\* What extract_info(url, download=False) gives in tier B: an error,
\* nothing, or the subtitle tracks of the video and the formats of each.
SubtitleInfos ==
    {Raise("Exception"), Ret(None)}
    \cup {Ret([subtitles |-> s, automatic_captions |-> a, formats |-> f]) :
            s \in KeySeqs({LangEn}, 1), a \in KeySeqs({LangEs419}, 1),
            f \in {"none", "no_url", "vtt"}}

\* What urlopen(...).read().decode() gives in tier B: an error, or the
\* content (empty, without any cue, with cues).
SubtitleContents ==
    {Raise("Exception"),
     Ret(<<>>),
     Ret(<<TextLine(<<"a">>)>>),
     Ret(<<CueLine(TimeA, TimeC), TextLine(<<TagTok, "a">>),
           CueLine(TimeC, TimeA), TextLine(<<"b">>)>>)}

\* A file of the download directory: <file_id>.<ext>, empty or not.
File(id, ext, empty) == [id |-> id, ext |-> ext, empty |-> empty]
Path(f) == [id |-> f.id, ext |-> f.ext]
exists(files, path) == \E f \in files : Path(f) = path

\* What extract_info(url, download=True) does in download_audio for file id
\* id: it writes files named <id>.* and returns info (or nothing), or it
\* raises, possibly after the download wrote the source file and before the
\* conversion to mp3 replaced it.
Downloads(id) ==
    {[end |-> Ret(TRUE), wrote |-> w] :
        w \in {{}, {File(id, "mp3", FALSE)}, {File(id, "mp3", TRUE)},
               {File(id, "webm", FALSE)}}}
    \cup {[end |-> Ret(FALSE), wrote |-> {}]}
    \cup {[end |-> Raise("DownloadError"), wrote |-> w] :
            w \in {{}, {File(id, "webm", FALSE)}}}
    \cup {[end |-> Raise("Exception"), wrote |-> {}]}

\* What model.transcribe and the iteration of its segments give.
Decodings ==
    {Raise("Exception"),
     Ret(TranscriptionResult(<<"a">>, <<TranscriptionSegment(0, 1000, <<"a">>)>>,
                             LangEn, 1000))}

InitRequest ==
    [pc |-> "idle",
     url |-> <<>>, platform |-> "auto", language |-> NoTag,   \* the request
     video_id |-> NoStr,         \* get_transcript: video_id (line 458)
     sel |-> Unset,              \* tier A: transcript; tier B: selected_lang
     tier_a_result |-> Unset,    \* what _fetch_with_transcript_api returned
     native |-> Unset,           \* native_transcript
     source |-> "none",          \* history: what gave the native transcript: a
                                 \*   "manual" or "generated" track, or "ytdlp"
     info_ok |-> FALSE,          \* download_audio: info is not None
     audio_path |-> None,        \* audio_path
     transcriber |-> None,       \* transcriber
     response |-> None,          \* the response sent, success or HTTPException
     called |-> {},              \* history: the operations the request invoked
     caught |-> {},              \* where the running call swallowed an exception
     raised |-> {},              \* history: the operations that raised to their caller
     created |-> {},             \* history: the files the request's download wrote
     cleanups |-> 0]             \* history: calls of youtube_downloader.cleanup

Init ==
    /\ req = [r \in Requests |-> InitRequest]
    /\ disk = {}
    /\ tdisk = {}
    /\ whisper_transcriber = None
    /\ instances = <<>>
    /\ ParseIdle
    /\ SelIdle
    /\ RestIdle

\* The request leaves the try block with this response: the finally clause
\* (lines 257-260) has work only if audio_path is set.
Leave(q, response) ==
    [q EXCEPT !.response = response,
              !.pc = IF q.audio_path # None THEN "finally" ELSE "done"]

\* An exception of the try block: lines 241-255.
Fail(q, exc) == Leave(q, ErrorResponse(exc))

\* get_transcript has returned native_transcript: lines 164-201.
GotTranscript(q, native_transcript) ==
    LET q1 == [q EXCEPT !.native = native_transcript]
    IN  [q1 EXCEPT !.pc = after_get_transcript(native_transcript)]

\* A tier ended with out (Ret or Raise) inside get_transcript: an exception
\* propagates through get_transcript (it has no try) into the try block of
\* transcribe_endpoint.
TierRaised(q, out) ==
    Fail([q EXCEPT !.raised = @ \cup {"get_transcript"}], out.exc)

\* Lines 132-162 and get_transcript lines 455-464: platform detection, and
\* for YouTube the call of get_transcript up to its first tier.
Receive(r) ==
    /\ req[r].pc = "idle"
    /\ \E url \in RequestUrls, platform \in Platforms, language \in RequestLanguages :
          LET detected ==
                  IF platform # "auto" THEN platform
                  ELSE IF contains(url, <<"youtube", ".", "com">>)
                          \/ contains(url, <<"youtu", ".", "be">>) THEN "youtube"
                  ELSE IF contains(url, <<"instagram", ".", "com">>) THEN "instagram"
                  ELSE "undetected"
              q == [req[r] EXCEPT !.url = url, !.platform = detected,
                                  !.language = language]
          IN  /\ request_url_valid(url)
              /\ req' = [req EXCEPT ![r] =
                    IF detected = "undetected"
                    THEN [q EXCEPT !.pc = "done",                    \* lines 144-147
                                   !.response = [status |-> 400, exc |-> "HTTPException"]]
                    ELSE IF detected = "instagram"
                    THEN Fail(q, "HTTPException")                    \* lines 205-210
                    ELSE LET q1 == [q EXCEPT !.called = @ \cup {"get_transcript"},
                                             !.video_id = extract_video_id(url)]
                         IN  IF q1.video_id = NoStr
                             THEN GotTranscript(q1, None)            \* lines 460-462
                             ELSE [q1 EXCEPT !.pc = "tier_a"]]
    /\ UNCHANGED <<disk, tdisk, whisper_transcriber, instances>>
    /\ UNCHANGED <<parseVars, selVars, restVars>>

\* After tier A ended with out: get_transcript lines 467-474.
AfterTierA(q, out) ==
    IF out.tag = "raise" THEN TierRaised(q, out)
    ELSE LET q1 == [q EXCEPT !.tier_a_result = out.value]
         IN  IF after_tier_a(out.value) = "return"
             THEN GotTranscript(q1, out.value)
             ELSE [q1 EXCEPT !.pc = "tier_b"]

\* _fetch_with_transcript_api up to the selection of a track.
TierAList(r) ==
    /\ req[r].pc = "tier_a"
    /\ \E listing \in Listings :
          LET q   == [req[r] EXCEPT !.called = @ \cup {"tier_a"},
                                    !.caught = IF listing.tag = "raise"
                                               THEN {"tier_a"} ELSE {}]
              out == tier_a_select(listing, preferred_langs(q.language))
          IN  req' = [req EXCEPT ![r] =
                    IF out.tag = "fetch"
                    THEN [q EXCEPT !.pc = "tier_a_fetch", !.sel = out.transcript]
                    ELSE AfterTierA(q, out)]
    /\ UNCHANGED <<disk, tdisk, whisper_transcriber, instances>>
    /\ UNCHANGED <<parseVars, selVars, restVars>>

\* _fetch_with_transcript_api from transcript.fetch() on.
TierAFetch(r) ==
    /\ req[r].pc = "tier_a_fetch"
    /\ \E fetched \in Fetches :
          LET out == tier_a_fetch(req[r].sel, fetched)
              q   == [req[r] EXCEPT !.sel = Unset,
                                    !.source = IF out.tag = "return" /\ out.value # None
                                               THEN req[r].sel.kind ELSE @,
                                    !.caught = IF fetched.tag = "raise" /\ out.tag = "return"
                                               THEN {"tier_a"} ELSE @]
          IN  req' = [req EXCEPT ![r] = AfterTierA(q, out)]
    /\ UNCHANGED <<disk, tdisk, whisper_transcriber, instances>>
    /\ UNCHANGED <<parseVars, selVars, restVars>>

\* After tier B ended with out: get_transcript lines 474-480.
AfterTierB(q, out) ==
    IF out.tag = "raise" THEN TierRaised(q, out)
    ELSE GotTranscript(q, out.value)

\* _fetch_with_ytdlp up to the choice of the subtitle URL; every way out
\* runs the finally clause.
TierBInfo(r) ==
    /\ req[r].pc = "tier_b"
    /\ \E got \in SubtitleInfos, wrote, ok1, ok2 \in BOOLEAN :
          LET video_id == req[r].video_id
              cleaned  == remove_transient(tdisk, video_id, ok1)      \* 293-297
              written  == IF wrote THEN cleaned \cup {video_id} ELSE cleaned
              q   == [req[r] EXCEPT !.called = @ \cup {"tier_b"}]
              out == IF got.tag = "raise" THEN tier_b_except(got.exc)
                     ELSE tier_b_select(got.value, preferred_langs(q.language))
              q1  == [q EXCEPT !.caught =
                        @ \cup (IF got.tag = "raise" /\ out.tag = "return"
                                THEN {"tier_b"} ELSE {})
                          \cup (IF video_id \in written /\ ~ok2
                              THEN {"tier_b_cleanup"} ELSE {})]
          IN  IF out.tag = "fetch"
              THEN /\ req' = [req EXCEPT ![r] =
                                [q EXCEPT !.pc = "tier_b_fetch", !.sel = out.selected_lang]]
                   /\ tdisk' = written
              ELSE /\ req' = [req EXCEPT ![r] = AfterTierB(q1, out)]
                   /\ tdisk' = remove_transient(written, video_id, ok2)   \* 427-433
    /\ UNCHANGED <<disk, whisper_transcriber, instances>>
    /\ UNCHANGED <<parseVars, selVars, restVars>>

\* _fetch_with_ytdlp from urlopen on, and its finally clause.
TierBFetch(r) ==
    /\ req[r].pc = "tier_b_fetch"
    /\ \E fetched \in SubtitleContents, ok \in BOOLEAN :
          LET video_id == req[r].video_id
              out == tier_b_fetch(req[r].sel, fetched)
              q   == [req[r] EXCEPT !.sel = Unset,
                        !.source = IF out.tag = "return" /\ out.value # None
                                   THEN "ytdlp" ELSE @,
                        !.caught =
                        @ \cup (IF fetched.tag = "raise" /\ out.tag = "return"
                                THEN {"tier_b"} ELSE {})
                          \cup (IF video_id \in tdisk /\ ~ok
                              THEN {"tier_b_cleanup"} ELSE {})]
          IN  /\ req' = [req EXCEPT ![r] = AfterTierB(q, out)]
              /\ tdisk' = remove_transient(tdisk, video_id, ok)           \* 427-433
    /\ UNCHANGED <<disk, whisper_transcriber, instances>>
    /\ UNCHANGED <<parseVars, selVars, restVars>>

\* The video_info with a failed lookup falling through to the endpoint's
\* last resort, the placeholder of get_video_info_safe left out.
video_info_for_no_placeholder(url, extracted) ==
    IF validate_url(url) /\ extracted THEN "full" ELSE "minimal"

\* YoutubeDownloader.get_video_info_safe (lines 165-188) and the fallback of
\* transcribe_endpoint (lines 170-180): which video_info the response
\* carries, given whether yt-dlp's extract_info gave the video's info.
video_info_for(url, extracted) ==
    IF validate_url(url) /\ extracted THEN "full"
    ELSE IF extract_video_id(url) # NoStr THEN "placeholder"
         ELSE "minimal"

\* Line 193: the method tag of a response built from a native transcript;
\* the same tag whatever gave the transcript.
native_method(source) == "youtube-native"

\* Lines 164-194: the response built from the native transcript.
VideoInfo(r) ==
    /\ req[r].pc = "video_info"
    /\ \E extracted \in BOOLEAN :
          req' = [req EXCEPT ![r] =
                    Leave([req[r] EXCEPT !.caught = {}],
                                  [status |-> 200, method |-> native_method(req[r].source),
                                   result |-> req[r].native,
                                   video_info |-> video_info_for(req[r].url, extracted)])]
    /\ UNCHANGED <<disk, tdisk, whisper_transcriber, instances>>
    /\ UNCHANGED <<parseVars, selVars, restVars>>

\* download_audio lines 251-256: a DownloadError becomes a RuntimeError,
\* any other exception is raised again as it is.
download_except(exc) == IF exc = "DownloadError" THEN "RuntimeError" ELSE exc

\* download_audio lines 200-213: the URL check and yt-dlp's download.  The
\* file id (uuid4, line 204) is unique to the call: the request's number.
Download(r) ==
    /\ req[r].pc = "download"
    /\ LET q == [req[r] EXCEPT !.called = @ \cup {"download_audio"}, !.caught = {}]
       IN  IF ~validate_url(q.url)
           THEN /\ req' = [req EXCEPT ![r] =
                             Fail([q EXCEPT !.raised = @ \cup {"download_audio"}],
                                  "ValueError")]
                /\ disk' = disk
           ELSE \E d \in Downloads(r) :
                   /\ disk' = disk \cup d.wrote
                   /\ req' = [req EXCEPT ![r] =
                        LET q1 == [q EXCEPT !.created = d.wrote]
                        IN  IF d.end.tag = "raise"
                            THEN Fail([q1 EXCEPT !.raised = @ \cup {"download_audio"}],
                                      download_except(d.end.exc))
                            ELSE [q1 EXCEPT !.pc = "download_check",
                                            !.info_ok = d.end.value]]
    /\ UNCHANGED <<tdisk, whisper_transcriber, instances>>
    /\ UNCHANGED <<parseVars, selVars, restVars>>

\* download_audio lines 219-227: <id>.mp3 if it exists, else any <id>.*.
audio_file_candidates(files, id) ==
    IF exists(files, [id |-> id, ext |-> "mp3"])
    THEN {[id |-> id, ext |-> "mp3"]}
    ELSE {Path(f) : f \in {g \in files : g.id = id}}

\* Path.unlink(): the file is gone, unless the removal fails.
unlink(files, path, unlink_ok) ==
    IF unlink_ok THEN {f \in files : Path(f) # path} ELSE files

\* Lines 229-231 with the size test never true.
file_size_zero_never(files, audio_file) == FALSE

\* Lines 229-231: audio_file.stat().st_size == 0.
file_size_zero(files, audio_file) ==
    \E f \in files : Path(f) = audio_file /\ f.empty

\* download_audio lines 215-249, and lines 202-203 of transcribe_endpoint.
DownloadCheck(r) ==
    /\ req[r].pc = "download_check"
    /\ LET q == req[r]
           failed(exc) == Fail([q EXCEPT !.raised = @ \cup {"download_audio"}], exc)
       IN  IF ~q.info_ok
           THEN req' = [req EXCEPT ![r] = failed("RuntimeError")] /\ disk' = disk
           ELSE IF audio_file_candidates(disk, r) = {}
           THEN req' = [req EXCEPT ![r] = failed("FileNotFoundError")] /\ disk' = disk
           ELSE \E audio_file \in audio_file_candidates(disk, r), unlink_ok \in BOOLEAN :
                   IF file_size_zero(disk, audio_file)
                   THEN /\ disk' = unlink(disk, audio_file, unlink_ok)   \* 231-236
                        /\ req' = [req EXCEPT ![r] =
                                     [failed("RuntimeError") EXCEPT !.caught =
                                        IF unlink_ok THEN @ ELSE {"download_unlink"}]]
                   ELSE /\ disk' = disk
                        /\ req' = [req EXCEPT ![r] =
                                     [q EXCEPT !.audio_path = audio_file,
                                               !.pc = "get_transcriber"]]
    /\ UNCHANGED <<tdisk, whisper_transcriber, instances>>
    /\ UNCHANGED <<parseVars, selVars, restVars>>

\* whisper_transcriber.py line 60
DEFAULT_MODEL == "small"

\* WhisperTranscriber.__init__: no model loaded yet.
WhisperTranscriber(model_name) == [model_name |-> model_name, _model |-> None]

\* A reference to the WhisperTranscriber object with this id.
Ref(id) == [tag |-> "WhisperTranscriber", id |-> id]

\* get_transcriber, line 42: the test of the global.
GetTranscriber(r) ==
    /\ req[r].pc = "get_transcriber"
    /\ req' = [req EXCEPT ![r] =
                 LET q == [req[r] EXCEPT !.called = @ \cup {"get_transcriber"}]
                 IN  IF whisper_transcriber = None
                     THEN [q EXCEPT !.pc = "create_transcriber"]
                     ELSE [q EXCEPT !.transcriber = whisper_transcriber,
                                    !.pc = "transcribe"]]
    /\ UNCHANGED <<disk, tdisk, whisper_transcriber, instances>>
    /\ UNCHANGED <<parseVars, selVars, restVars>>

\* get_transcriber, lines 43-44: a new WhisperTranscriber becomes the global.
CreateTranscriber(r) ==
    /\ req[r].pc = "create_transcriber"
    /\ instances' = instances @@ (r :> WhisperTranscriber(DEFAULT_MODEL))
    /\ whisper_transcriber' = Ref(r)
    /\ req' = [req EXCEPT ![r] = [@ EXCEPT !.transcriber = Ref(r), !.pc = "transcribe"]]
    /\ UNCHANGED <<disk, tdisk>>
    /\ UNCHANGED <<parseVars, selVars, restVars>>

\* WhisperTranscriber.transcribe lines 141-149 and _load_model line 101.
Transcribe(r) ==
    /\ req[r].pc = "transcribe"
    /\ req' = [req EXCEPT ![r] =
                 LET q == [req[r] EXCEPT !.called = @ \cup {"transcribe"}]
                 IN  IF ~exists(disk, q.audio_path)
                     THEN Fail([q EXCEPT !.raised = @ \cup {"transcribe"}],
                               "FileNotFoundError")
                     ELSE IF instances[q.transcriber.id]._model = None
                     THEN [q EXCEPT !.pc = "load_model"]
                     ELSE [q EXCEPT !.pc = "decode"]]
    /\ UNCHANGED <<disk, tdisk, whisper_transcriber, instances>>
    /\ UNCHANGED <<parseVars, selVars, restVars>>

\* The model handle the load of request r creates.
Handle(r) == [tag |-> "WhisperModel", id |-> r]

\* _load_model with _model assigned whatever the constructor did.
_load_model_clobber(transcriber, loaded, handle) ==
    [transcriber EXCEPT !._model = IF loaded THEN handle ELSE None]

\* _load_model lines 104-118, the transcriber afterwards: _model is assigned
\* when the constructor returned, and left alone when it raised.
_load_model(transcriber, loaded, handle) ==
    IF loaded THEN [transcriber EXCEPT !._model = handle] ELSE transcriber

\* _load_model lines 102-118: the model is built and kept, or the load
\* fails with a RuntimeError and _model stays as it was.
LoadModel(r) ==
    /\ req[r].pc = "load_model"
    /\ \E loaded \in BOOLEAN :
          /\ instances' = [instances EXCEPT ![req[r].transcriber.id] =
                                              _load_model(@, loaded, Handle(r))]
          /\ IF loaded
             THEN req' = [req EXCEPT ![r] = [@ EXCEPT !.pc = "decode"]]
             ELSE req' = [req EXCEPT ![r] =
                            Fail([req[r] EXCEPT !.raised = @ \cup {"transcribe"}],
                                 "RuntimeError")]
    /\ UNCHANGED <<disk, tdisk, whisper_transcriber>>
    /\ UNCHANGED <<parseVars, selVars, restVars>>

\* transcribe lines 151-198 and transcribe_endpoint lines 222-239.
Decode(r) ==
    /\ req[r].pc = "decode"
    /\ \E d \in Decodings :
          req' = [req EXCEPT ![r] =
                    IF d.tag = "raise"
                    THEN Fail([req[r] EXCEPT !.raised = @ \cup {"transcribe"}],
                              "RuntimeError")
                    ELSE Leave(req[r],
                               [status |-> 200, method |-> "whisper",
                                model |-> instances[req[r].transcriber.id].model_name,
                                result |-> d.value, video_info |-> "download"])]
    /\ UNCHANGED <<disk, tdisk, whisper_transcriber, instances>>
    /\ UNCHANGED <<parseVars, selVars, restVars>>

\* YoutubeDownloader.cleanup: the file is deleted if it exists and the
\* removal succeeds; no exception leaves cleanup.
cleanup(files, file_path, unlink_ok) ==
    IF exists(files, file_path) THEN unlink(files, file_path, unlink_ok) ELSE files

\* The finally clause, lines 257-260.
Finally(r) ==
    /\ req[r].pc = "finally"
    /\ \E unlink_ok \in BOOLEAN :
          disk' = cleanup(disk, req[r].audio_path, unlink_ok)
    /\ req' = [req EXCEPT ![r] = [@ EXCEPT !.cleanups = @ + 1, !.pc = "done"]]
    /\ UNCHANGED <<tdisk, whisper_transcriber, instances>>
    /\ UNCHANGED <<parseVars, selVars, restVars>>

Next ==
    \E r \in Requests :
        \/ Receive(r)
        \/ TierAList(r)
        \/ TierAFetch(r)
        \/ TierBInfo(r)
        \/ TierBFetch(r)
        \/ VideoInfo(r)
        \/ Download(r)
        \/ DownloadCheck(r)
        \/ GetTranscriber(r)
        \/ CreateTranscriber(r)
        \/ Transcribe(r)
        \/ LoadModel(r)
        \/ Decode(r)
        \/ Finally(r)

Spec == Init /\ [][Next]_vars

(***************************************************************************)
(* Specification SpecSweep: one call of cleanup_old_files, step by step    *)
(* (one file-system call per step), while other requests' cleanup calls    *)
(* delete files of the same directory.  Times are integers in seconds.     *)
(***************************************************************************)
\* What time.time() returns at line 279.
Clock == {7200}

\* The st_mtime of a file, relative to that time: in the future, at that very
\* instant, exactly one hour old, older than one hour.
MTimes == {7201, 7200, 3600, 3599}

\* max_age_hours: 0 at shutdown, any value through DELETE /cleanup.
Thresholds == {0, 1}

SweptFile(id) == File(id, "mp3", FALSE)

\* Line 280.
max_age_seconds(max_age_hours) == max_age_hours * 3600

\* Line 285.
file_age(current_time, st_mtime) == current_time - st_mtime

\* Line 286 with "at least" in place of "more than".
is_old_or_equal(age, max_age) == age >= max_age

\* Line 286: the file is deleted if it is older than the threshold.
is_old(age, max_age) == age > max_age

\* output_dir.glob("*"): the entries of the directory at the time of the
\* scan, in the order of their ids.
RECURSIVE listing(_, _)
listing(files, id) ==
    IF id > MaxFiles THEN <<>>
    ELSE (IF exists(files, Path(SweptFile(id))) THEN <<Path(SweptFile(id))>> ELSE <<>>)
         \o listing(files, id + 1)

SweepInit ==
    /\ disk \in SUBSET {SweptFile(id) : id \in 1..MaxFiles}
    /\ mtimes \in [1..MaxFiles -> MTimes]
    /\ \E max_age_hours \in Thresholds :
          sweep = [pc |-> "start", max_age_hours |-> max_age_hours,
                   current_time |-> 0, todo |-> <<>>, deleted_count |-> 0,
                   unlinked |-> {},     \* history: files this sweep deleted
                   failed |-> {},       \* history: files whose unlink failed
                   vanished |-> {}]     \* history: files a concurrent cleanup deleted
    /\ req = <<>>
    /\ tdisk = {}
    /\ whisper_transcriber = None
    /\ instances = <<>>
    /\ ParseIdle
    /\ SelIdle
    /\ IdIdle
    /\ AdminIdle
    /\ CallIdle

\* The loop goes on to the next entry, or the sweep returns deleted_count.
next_entry(sw) ==
    LET rest == Tail(sw.todo)
    IN  [sw EXCEPT !.todo = rest,
                   !.pc = IF rest = <<>> THEN "done" ELSE "is_file"]

\* Lines 279-283: the time is read and the directory is scanned.
SweepStart ==
    /\ sweep.pc = "start"
    /\ \E now \in Clock :
          LET todo == listing(disk, 1)
          IN  sweep' = [sweep EXCEPT !.current_time = now, !.todo = todo,
                                     !.pc = IF todo = <<>> THEN "done" ELSE "is_file"]
    /\ UNCHANGED <<req, disk, tdisk, whisper_transcriber, instances, mtimes>>
    /\ UNCHANGED <<parseVars, selVars, idVars, adminVars, callVars>>

\* Line 284: is_file() is false for an entry that no longer exists.
SweepIsFile ==
    /\ sweep.pc = "is_file"
    /\ sweep' = IF exists(disk, Head(sweep.todo))
                THEN [sweep EXCEPT !.pc = "stat"]
                ELSE next_entry(sweep)
    /\ UNCHANGED <<req, disk, tdisk, whisper_transcriber, instances, mtimes>>
    /\ UNCHANGED <<parseVars, selVars, idVars, adminVars, callVars>>

\* Lines 285-286: stat() is outside any try, so the FileNotFoundError it
\* raises for an entry that no longer exists leaves cleanup_old_files.
SweepStat ==
    /\ sweep.pc = "stat"
    /\ LET file_path == Head(sweep.todo)
       IN  sweep' =
             IF ~exists(disk, file_path)
             THEN [sweep EXCEPT !.pc = "raised"]
             ELSE IF is_old(file_age(sweep.current_time, mtimes[file_path.id]),
                            max_age_seconds(sweep.max_age_hours))
             THEN [sweep EXCEPT !.pc = "unlink"]
             ELSE next_entry(sweep)
    /\ UNCHANGED <<req, disk, tdisk, whisper_transcriber, instances, mtimes>>
    /\ UNCHANGED <<parseVars, selVars, idVars, adminVars, callVars>>

\* Lines 287-292: unlink() inside try/except Exception; the count grows
\* only when unlink() returned.
SweepUnlink ==
    /\ sweep.pc = "unlink"
    /\ LET file_path == Head(sweep.todo)
       IN  IF ~exists(disk, file_path)
           THEN /\ disk' = disk
                /\ sweep' = next_entry(sweep)
           ELSE \E unlink_ok \in BOOLEAN :
                   /\ disk' = unlink(disk, file_path, unlink_ok)
                   /\ sweep' = next_entry(
                         IF unlink_ok
                         THEN [sweep EXCEPT !.deleted_count = @ + 1,
                                            !.unlinked = @ \cup {file_path}]
                         ELSE [sweep EXCEPT !.failed = @ \cup {file_path}])
    /\ UNCHANGED <<req, tdisk, whisper_transcriber, instances, mtimes>>
    /\ UNCHANGED <<parseVars, selVars, idVars, adminVars, callVars>>

\* A request's finally clause (main.py 257-260) calls cleanup on its own
\* audio file, which is one of the directory's files.
OtherCleanup ==
    /\ \E f \in disk :
          /\ disk' = cleanup(disk, Path(f), TRUE)
          /\ sweep' = [sweep EXCEPT !.vanished = @ \cup {Path(f)}]
    /\ UNCHANGED <<req, tdisk, whisper_transcriber, instances, mtimes>>
    /\ UNCHANGED <<parseVars, selVars, idVars, adminVars, callVars>>

SweepNext ==
    \/ SweepStart
    \/ SweepIsFile
    \/ SweepStat
    \/ SweepUnlink
    \/ OtherCleanup

SpecSweep == SweepInit /\ [][SweepNext]_vars

(***************************************************************************)
(* Specification SpecCleanup: YoutubeDownloader.cleanup called a few times *)
(* on the files of the download directory, each call recorded with what it *)
(* returned and the directory before and after it.                         *)
(***************************************************************************)
\* The except clause with the exception raised again.
cleanup_except_reraise(exc) == Raise(exc)

\* Lines 269-271: "except Exception" logs and returns False.
cleanup_except(exc) == Ret(FALSE)

\* How cleanup ends (lines 262-271): True after exists() and unlink(), False
\* for a missing file, and the except clause when unlink raises.
cleanup_end(files, file_path, unlink_ok) ==
    IF exists(files, file_path)
    THEN IF unlink_ok THEN Ret(TRUE) ELSE cleanup_except("OSError")
    ELSE Ret(FALSE)

CleanupPaths == {Path(SweptFile(id)) : id \in 1..MaxFiles}

CleanupInit ==
    /\ disk \in SUBSET {SweptFile(id) : id \in 1..MaxFiles}
    /\ calls = <<>>
    /\ reparse = [pc |-> "off"]
    /\ scan = [pc |-> "off"]
    /\ req = <<>>
    /\ tdisk = {}
    /\ whisper_transcriber = None
    /\ instances = <<>>
    /\ ParseIdle
    /\ SelIdle
    /\ IdIdle
    /\ SweepIdle
    /\ AdminIdle

\* One call of cleanup(file_path).
Cleanup ==
    /\ Len(calls) < MaxCalls
    /\ \E file_path \in CleanupPaths, unlink_ok \in BOOLEAN :
          /\ disk' = cleanup(disk, file_path, unlink_ok)
          /\ calls' = Append(calls, [file_path |-> file_path,
                                     end |-> cleanup_end(disk, file_path, unlink_ok),
                                     before |-> disk,
                                     after |-> disk'])
    /\ UNCHANGED <<req, tdisk, whisper_transcriber, instances, reparse, scan>>
    /\ UNCHANGED <<parseVars, selVars, idVars, sweepVars, adminVars>>

CleanupNext == Cleanup

SpecCleanup == CleanupInit /\ [][CleanupNext]_vars

(***************************************************************************)
(* Specification SpecModel: the recognition model's life cycle.  Requests  *)
(* that have downloaded their audio run get_transcriber and transcribe on  *)
(* worker threads, while the event loop serves /model/load and             *)
(* /model/unload, one call at a time (they are coroutines without await).  *)
(***************************************************************************)
\* The two requests whose worker threads are in the recognition step
\* together (transcribe_endpoint is a plain def, lines 217-224).
Transcribing == {1, 2}

\* model_name of /model/load: absent (the default) or given.
PreloadModels == {DEFAULT_MODEL, "base"}

\* A request as transcribe_endpoint has it after download_audio returned:
\* no native transcript, the audio file r.mp3 written.
Downloaded(r) ==
    [InitRequest EXCEPT
        !.pc = "get_transcriber", !.url = UrlWatch, !.platform = "youtube",
        !.video_id = VideoId.w, !.tier_a_result = None, !.native = None,
        !.info_ok = TRUE, !.audio_path = Path(File(r, "mp3", FALSE)),
        !.called = {"get_transcript", "tier_a", "tier_b", "download_audio"},
        !.created = {File(r, "mp3", FALSE)}]

ModelInit ==
    /\ req = [r \in Transcribing |-> Downloaded(r)]
    /\ disk = {File(r, "mp3", FALSE) : r \in Transcribing}
    /\ tdisk = {}
    /\ whisper_transcriber = None
    /\ instances = <<>>
    /\ admin = [pc |-> "idle", ops |-> 0,
                last |-> "none",       \* history: how the last call ended
                previous |-> None,     \* history: the global when the last
                                       \*   /model/load began
                known |-> {},          \* history: the transcribers created before
                                       \*   the last unload returned
                disturbed |-> {},      \* history: requests that were decoding while
                                       \*   unload_model ran on their transcriber
                target |-> 0]          \* the transcriber _load_model runs on
    /\ ParseIdle
    /\ SelIdle
    /\ IdIdle
    /\ SweepIdle
    /\ CallIdle

\* WhisperTranscriber.is_model_loaded
is_model_loaded(transcriber) == transcriber._model # None

\* health_check, line 114: whisper_loaded.
whisper_loaded ==
    whisper_transcriber # None /\ is_model_loaded(instances[whisper_transcriber.id])

\* unload_model with the handle kept.
unload_model_keep(transcriber) == transcriber

\* WhisperTranscriber.unload_model
unload_model(transcriber) == [transcriber EXCEPT !._model = None]

\* The id of the transcriber the next /model/load creates.
preload_id == Cardinality(Transcribing) + admin.ops + 1

\* The call being served returns.
Served(a, how) == [a EXCEPT !.pc = "idle", !.ops = @ + 1, !.last = how]

\* load_whisper_model, lines 315-318: a new transcriber becomes the global.
\* model_name or DEFAULT_MODEL is its model.
PreloadCreate ==
    /\ admin.pc = "idle"
    /\ admin.ops < MaxAdminOps
    /\ \E model \in PreloadModels :
          instances' = instances @@ (preload_id :> WhisperTranscriber(model))
    /\ whisper_transcriber' = Ref(preload_id)
    /\ admin' = [admin EXCEPT !.pc = "preload_load", !.previous = whisper_transcriber]
    /\ UNCHANGED <<req, disk, tdisk>>
    /\ UNCHANGED <<parseVars, selVars, idVars, sweepVars, callVars>>

\* Line 319 and _load_model line 101: the global is read again and its
\* _model tested.
PreloadLoad ==
    /\ admin.pc = "preload_load"
    /\ admin' = IF is_model_loaded(instances[whisper_transcriber.id])
                THEN Served(admin, "loaded")
                ELSE [admin EXCEPT !.pc = "preload_construct",
                                   !.target = whisper_transcriber.id]
    /\ UNCHANGED <<req, disk, tdisk, whisper_transcriber, instances>>
    /\ UNCHANGED <<parseVars, selVars, idVars, sweepVars, callVars>>

\* _load_model lines 102-118 for /model/load, and lines 321-329.
PreloadConstruct ==
    /\ admin.pc = "preload_construct"
    /\ \E loaded \in BOOLEAN :
          /\ instances' = [instances EXCEPT ![admin.target] =
                                  _load_model(@, loaded, Handle(admin.target))]
          /\ admin' = Served(admin, IF loaded THEN "loaded" ELSE "load_failed")
    /\ UNCHANGED <<req, disk, tdisk, whisper_transcriber>>
    /\ UNCHANGED <<parseVars, selVars, idVars, sweepVars, callVars>>

\* unload_whisper_model, lines 339-340 and 344: unload_model on the global
\* transcriber, or nothing to unload.
UnloadModel ==
    /\ admin.pc = "idle"
    /\ admin.ops < MaxAdminOps
    /\ IF whisper_transcriber = None
       THEN /\ admin' = Served(admin, "nothing_loaded")
            /\ instances' = instances
       ELSE /\ instances' = [instances EXCEPT ![whisper_transcriber.id] = unload_model(@)]
            /\ admin' = [admin EXCEPT
                  !.pc = "unload_reset",
                  !.disturbed = @ \cup
                      {r \in DOMAIN req : /\ req[r].transcriber = whisper_transcriber
                                          /\ req[r].pc = "decode"}]
    /\ UNCHANGED <<req, disk, tdisk, whisper_transcriber>>
    /\ UNCHANGED <<parseVars, selVars, idVars, sweepVars, callVars>>

\* unload_whisper_model, lines 341-342: the global is reset.
UnloadReset ==
    /\ admin.pc = "unload_reset"
    /\ whisper_transcriber' = None
    /\ admin' = [Served(admin, "unloaded") EXCEPT !.known = DOMAIN instances]
    /\ UNCHANGED <<req, disk, tdisk, instances>>
    /\ UNCHANGED <<parseVars, selVars, idVars, sweepVars, callVars>>

ModelNext ==
    \/ \E r \in Transcribing :
          \/ GetTranscriber(r)
          \/ CreateTranscriber(r)
          \/ Transcribe(r)
          \/ LoadModel(r)
          \/ Decode(r)
    \/ PreloadCreate
    \/ PreloadLoad
    \/ PreloadConstruct
    \/ UnloadModel
    \/ UnloadReset

SpecModel == ModelInit /\ [][ModelNext]_vars

(***************************************************************************)
(* Specification SpecRace: requests that have downloaded their audio go    *)
(* through transcription and the finally clause on worker threads while    *)
(* DELETE /cleanup runs cleanup_old_files on the event loop (main.py       *)
(* 347-361: an async def that calls it directly).  The steps are those of  *)
(* Spec and SpecSweep.                                                     *)
(***************************************************************************)
\* A file a request wrote was last modified no later than a clock reading
\* taken afterwards.
DownloadMTimes == {t \in MTimes : \A now \in Clock : t <= now}

RaceInit ==
    /\ req = [r \in Transcribing |-> Downloaded(r)]
    /\ disk = {File(r, "mp3", FALSE) : r \in Transcribing}
    /\ tdisk = {}
    /\ whisper_transcriber = None
    /\ instances = <<>>
    /\ mtimes \in [1..MaxFiles -> DownloadMTimes]
    /\ \A id \in (1..MaxFiles) \ Transcribing :      \* no file: never read
          \A t \in DownloadMTimes : mtimes[id] >= t
    /\ \E max_age_hours \in Thresholds :
          sweep = [pc |-> "start", max_age_hours |-> max_age_hours,
                   current_time |-> 0, todo |-> <<>>, deleted_count |-> 0,
                   unlinked |-> {}, failed |-> {}, vanished |-> {}]
    /\ ParseIdle
    /\ SelIdle
    /\ IdIdle
    /\ AdminIdle
    /\ CallIdle

RaceNext ==
    \/ \E r \in Transcribing :
          \/ GetTranscriber(r)
          \/ CreateTranscriber(r)
          \/ Transcribe(r)
          \/ LoadModel(r)
          \/ Decode(r)
          \/ Finally(r)
    \/ SweepStart
    \/ SweepIsFile
    \/ SweepStat
    \/ SweepUnlink

SpecRace == RaceInit /\ [][RaceNext]_vars

(***************************************************************************)
(* Properties of transcription racing with the sweep (SpecRace).           *)
(***************************************************************************)
\* The request is between the return of its download_audio and the end of
\* its transcription attempt.
BeforeTranscribeEnds(r) ==
    req[r].pc \in {"get_transcriber", "create_transcriber", "transcribe",
                   "load_model", "decode"}

\* C35 as claimed: while a request is between the return of its download and
\* the end of its transcription attempt, its audio file is in the download
\* directory, whatever sweep or other request's cleanup runs meanwhile, and
\* its transcription never fails for want of the file.
C35_AudioFileSurvivesUntilTranscribed ==
    \A r \in Transcribing :
        /\ BeforeTranscribeEnds(r) => exists(disk, req[r].audio_path)
        /\ "transcribe" \in req[r].raised
              => req[r].response.exc # "FileNotFoundError"

(***************************************************************************)
(* Properties of the model's life cycle (SpecModel).                       *)
(***************************************************************************)
\* The transcriber request r works on.
transcriber_of(r) == instances[req[r].transcriber.id]

\* Request r's call of transcribe returns a transcription.
Transcribed(r) ==
    /\ req[r].pc = "decode"
    /\ req'[r].pc # "decode"
    /\ req'[r].response.status = 200

\* C19: when unload_model has run on a transcriber, is_model_loaded is false
\* for it, and when /model/unload has returned, the service reports no model
\* loaded; a transcribe call that finds no model loaded loads it instead of
\* failing, the load leaves the model loaded, and the model is loaded when a
\* call returns its transcription, unless an unload ran during its decoding.
C19_UnloadThenTransparentReload ==
    [][/\ (admin.pc = "idle" /\ admin'.pc = "unload_reset")
           => ~is_model_loaded(instances'[whisper_transcriber.id])
       /\ (admin.pc = "unload_reset" /\ admin'.pc = "idle")
           => whisper_transcriber' = None
       /\ \A r \in Transcribing :
            /\ ( /\ req[r].pc = "transcribe"
                 /\ req'[r].pc # "transcribe"
                 /\ exists(disk, req[r].audio_path)
                 /\ ~is_model_loaded(transcriber_of(r)) )
                => req'[r].pc = "load_model"
            /\ (req[r].pc = "load_model" /\ req'[r].pc = "decode")
                => is_model_loaded(instances'[req[r].transcriber.id])
            /\ (Transcribed(r) /\ r \notin admin.disturbed)
                => is_model_loaded(instances'[req[r].transcriber.id])
      ]_vars

\* An unload of a loaded service has returned, and a request that made its
\* transcriber afterwards has its transcription and leaves the model loaded.
C19_Witness ==
    \E r \in Transcribing :
        /\ admin.last = "unloaded"
        /\ admin.known # {}
        /\ r \notin admin.known
        /\ req[r].transcriber = Ref(r)
        /\ req[r].pc = "finally"
        /\ req[r].response.status = 200
        /\ req[r].response.method = "whisper"
        /\ whisper_loaded

\* The transcribers in use: the global one and those of the requests inside
\* transcribe.
in_use ==
    {i \in DOMAIN instances :
        \/ whisper_transcriber = Ref(i)
        \/ \E r \in Transcribing : /\ req[r].transcriber = Ref(i)
                                   /\ req[r].pc \in {"transcribe", "load_model", "decode"}}

\* The model handles the process holds.
model_handles == {instances[i]._model : i \in {j \in in_use : is_model_loaded(instances[j])}}

\* C20: the process holds at most one model handle at any time.
C20_AtMostOneModelHandle == Cardinality(model_handles) <= 1

C30_FailedPreloadKeepsTranscriber ==
    [][(admin.pc = "preload_construct" /\ admin'.last = "load_failed" /\ admin'.pc = "idle")
          => whisper_transcriber' = admin.previous
      ]_vars

\* C21: while a transcribe call is between the load of the model and the
\* end of its decoding, no unload has dropped the handle of its transcriber.
C21_NoUnloadDuringTranscribe ==
    \A r \in Transcribing :
        req[r].pc = "decode" => is_model_loaded(transcriber_of(r))

\* Request r's call of transcribe raises, in the load or in the decoding.
TranscribeFails(r) ==
    /\ req[r].pc \in {"load_model", "decode"}
    /\ req'[r].pc = "finally"
    /\ req'[r].response.status # 200

\* C22: a failure of the load or of the decoding inside transcribe ends that
\* request with an error and changes neither the transcribers' handles, nor
\* the process-wide transcriber, nor any other request.
C22_FailureKeepsHandleState ==
    [][\A r \in Transcribing :
          TranscribeFails(r) =>
              /\ req'[r].response = ErrorResponse("RuntimeError")
              /\ instances' = instances
              /\ whisper_transcriber' = whisper_transcriber
              /\ \A q \in Transcribing \ {r} : req'[q] = req[q]
      ]_vars

\* Request r's load failed (no unload was ever served, and its transcriber
\* has no model), and request q retries the load on the same transcriber.
C22_Witness ==
    \E r, q \in Transcribing :
        /\ r # q
        /\ admin.ops = 0 /\ admin.pc = "idle"
        /\ req[r].pc = "finally"
        /\ req[r].response = ErrorResponse("RuntimeError")
        /\ req[q].transcriber = req[r].transcriber
        /\ ~is_model_loaded(transcriber_of(r))
        /\ req[q].pc = "load_model"

(***************************************************************************)
(* Properties of transcribe_endpoint and get_transcript (Spec).            *)
(***************************************************************************)
\* get_transcript has returned to transcribe_endpoint with a transcript.
HasNative(r) == req[r].native # Unset /\ req[r].native # None

\* get_transcript has returned to transcribe_endpoint without a transcript.
NoNative(r) == req[r].native = None

\* C1: a request calls download_audio only after get_transcript was called
\* and returned no transcript; a request whose get_transcript returned a
\* transcript never calls download_audio, get_transcriber or transcribe, and
\* answers 200 with that transcript.
C1_NativeBeforeDownloadAndExclusive ==
    \A r \in Requests :
        /\ "download_audio" \in req[r].called
              => ("get_transcript" \in req[r].called /\ NoNative(r))
        /\ HasNative(r)
              => /\ req[r].called \cap {"download_audio", "get_transcriber", "transcribe"} = {}
                 /\ req[r].pc \in {"video_info", "done"}
                 /\ req[r].pc = "done"
                       => /\ req[r].response.status = 200
                          /\ req[r].response.method = "youtube-native"
                          /\ req[r].response.result = req[r].native
                          /\ req[r].created = {}

\* C1 witness: a request answered with its native transcript.
C1_Witness ==
    \E r \in Requests :
        /\ req[r].pc = "done"
        /\ HasNative(r)
        /\ "get_transcript" \in req[r].called
        /\ req[r].response.status = 200
        /\ req[r].response.result = req[r].native

\* C2 as claimed: when a request has returned, no file its download wrote is
\* on disk, and if its download wrote a file cleanup ran exactly once.
C2_DownloadedFileDeletedAtReturn ==
    \A r \in Requests :
        req[r].pc = "done" =>
            /\ req[r].created \cap disk = {}
            /\ req[r].created # {} => req[r].cleanups = 1

\* C3: once get_transcript has returned no transcript the request goes on to
\* download_audio; it fails only if download_audio or transcribe raised, and
\* when download_audio returned a path transcribe is called.
C3_EmptyCaptionsFallBackToDownload ==
    \A r \in Requests :
        NoNative(r) =>
            /\ req[r].pc = "download" \/ "download_audio" \in req[r].called
            /\ req[r].pc = "done" =>
                  \/ req[r].response.status = 200
                  \/ req[r].raised \cap {"download_audio", "transcribe"} # {}
            /\ (req[r].pc = "done" /\ req[r].audio_path # None)
                  => "transcribe" \in req[r].called

\* C3 witness: both tiers ran and gave nothing, and the request was answered
\* with the transcript of the recognition engine.
C3_Witness ==
    \E r \in Requests :
        /\ req[r].pc = "done"
        /\ {"tier_a", "tier_b", "download_audio", "transcribe"} \subseteq req[r].called
        /\ NoNative(r)
        /\ req[r].response.status = 200
        /\ req[r].response.method = "whisper"

\* C4: get_transcript never raises; a tier that swallowed an exception
\* returned None, and after its tiers get_transcript has returned a value.
C4_GetTranscriptNeverRaises ==
    \A r \in Requests :
        /\ "get_transcript" \notin req[r].raised
        /\ "tier_a" \in req[r].caught => req[r].tier_a_result = None
        /\ ("tier_b" \in req[r].caught /\ req[r].pc # "tier_b_fetch") => NoNative(r)
        /\ ("get_transcript" \in req[r].called
               /\ req[r].pc \notin {"tier_a", "tier_a_fetch", "tier_b", "tier_b_fetch"})
              => req[r].native # Unset

\* C4 witness: tier A swallowed an exception, then tier B swallowed one and
\* the removal of a transient file failed in its finally clause, and
\* get_transcript returned None.
C4_Witness ==
    \E r \in Requests :
        /\ req[r].caught = {"tier_a", "tier_b", "tier_b_cleanup"}
        /\ req[r].pc = "download"
        /\ NoNative(r)
        /\ req[r].raised = {}

\* C5 as claimed: a YouTube request whose URL matches no identifier pattern
\* calls neither download_audio nor transcribe.
C5_UnresolvableIdNeverDownloads ==
    \A r \in Requests :
        ("get_transcript" \in req[r].called /\ extract_video_id(req[r].url) = NoStr)
            => req[r].called \cap {"download_audio", "transcribe"} = {}

\* C7: tier B runs only after tier A returned None; when tier A returned a
\* transcript, tier B is not called and get_transcript returns that transcript.
C7_TierBOnlyAfterEmptyTierA ==
    \A r \in Requests :
        /\ ("tier_b" \in req[r].called \/ req[r].pc \in {"tier_b", "tier_b_fetch"})
              => ("tier_a" \in req[r].called /\ req[r].tier_a_result = None)
        /\ (req[r].tier_a_result # Unset /\ req[r].tier_a_result # None)
              => /\ "tier_b" \notin req[r].called
                 /\ req[r].native = req[r].tier_a_result

\* C7 witness: tier A returned None, tier B was called and gave a transcript.
C7_Witness ==
    \E r \in Requests :
        /\ req[r].tier_a_result = None
        /\ "tier_b" \in req[r].called
        /\ HasNative(r)

\* Request r was answered with the native transcript that source gave.
NativeFrom(r, source) ==
    /\ req[r].response # None
    /\ req[r].response.status = 200
    /\ req[r].source = source

\* The texts of the segments, in order.
segment_texts(segments) == [k \in 1..Len(segments) |-> segments[k].text]

\* C23: a response whose transcript tier A took from a manually created
\* track carries a provenance tag other than the tags of the generated-track
\* and extraction-tool transcripts, its text is the concatenation of the
\* track's segment texts, and the request downloaded nothing.
C23_ManualCaptionProvenance ==
    \A r \in Requests :
        NativeFrom(r, "manual") =>
            /\ req[r].response.method
                  \notin {native_method("generated"), native_method("ytdlp")}
            /\ req[r].response.result.text
                  = join(segment_texts(req[r].response.result.segments))
            /\ "download_audio" \notin req[r].called

\* C24: a request whose get_transcript returned a transcript is answered 200
\* with that very transcript (text, segments, language, duration), and with
\* the video's metadata or, when the lookup failed, the placeholder made from
\* the video id.
C24_MetadataFailureKeepsTranscript ==
    \A r \in Requests :
        (HasNative(r) /\ req[r].pc = "done") =>
            /\ req[r].response.status = 200
            /\ req[r].response.result = req[r].native
            /\ req[r].response.video_info \in {"full", "placeholder"}

\* C24 witness: the metadata lookup failed and the native transcript was
\* returned with the placeholder.
C24_Witness ==
    \E r \in Requests :
        /\ req[r].pc = "done"
        /\ HasNative(r)
        /\ req[r].response.status = 200
        /\ req[r].response.result.text # <<>>
        /\ req[r].response.video_info = "placeholder"

\* download_audio or transcribe raised to transcribe_endpoint.
DownloadOrTranscribeFailed(r) == req[r].raised \cap {"download_audio", "transcribe"} # {}

\* C25: a request whose download or transcription failed is answered with
\* one error and not with a success: 400 for the ValueError of an invalid
\* URL, 404 for the FileNotFoundError of a missing audio file, 500 for a
\* RuntimeError and for any other failure.
C25_FailuresSurfaceByKind ==
    \A r \in Requests :
        /\ DownloadOrTranscribeFailed(r) =>
              /\ req[r].response # None
              /\ req[r].response.status # 200
              /\ req[r].response.exc = "ValueError" => req[r].response.status = 400
              /\ req[r].response.exc = "FileNotFoundError" => req[r].response.status = 404
              /\ req[r].response.exc \notin {"ValueError", "FileNotFoundError"}
                    => req[r].response.status = 500
              /\ req[r].response.exc = "ValueError" <=> ~validate_url(req[r].url)
        /\ ("download_audio" \in req[r].called /\ ~validate_url(req[r].url))
              => req[r].response = ErrorResponse("ValueError")

\* C25 witness: the download left no audio file, and the request was
\* answered 404 after its finally clause.
C25_Witness ==
    \E r \in Requests :
        /\ req[r].pc = "done"
        /\ "download_audio" \in req[r].raised
        /\ req[r].response.status = 404
        /\ req[r].response.exc = "FileNotFoundError"

\* _fetch_with_ytdlp has returned to get_transcript.
TierBReturned(r) ==
    "tier_b" \in req[r].called /\ req[r].pc \notin {"tier_b", "tier_b_fetch"}

C29_ResolvedUrlPassesDownloadValidation ==
    \A r \in Requests :
        (req[r].video_id # NoStr /\ "download_audio" \in req[r].called)
            => /\ validate_url(req[r].url)
               /\ "download_audio" \in req[r].raised
                     => req[r].response.exc # "ValueError"

\* C31: a request for Instagram (named in the request or detected from the
\* URL) is answered with status 501, and it has made no download, loaded no
\* model and cleaned up no file.
C31_InstagramAnswered501 ==
    \A r \in Requests :
        (req[r].platform = "instagram" /\ req[r].pc = "done") =>
            /\ req[r].response.status = 501
            /\ req[r].called = {}
            /\ req[r].created = {}
            /\ req[r].transcriber = None
            /\ req[r].cleanups = 0

\* C12: a native transcript (from tier A or from tier B's parser) has at
\* least one segment and its duration is the end of its last segment.
C12_DurationIsLastSegmentEnd ==
    \A r \in Requests :
        HasNative(r) =>
            /\ req[r].native.segments # <<>>
            /\ req[r].native.duration = Last(req[r].native.segments).end

\* C12 witness: tier A returned a transcript of two segments, the first
\* ending before the second.
C12_Witness ==
    \E r \in Requests :
        /\ HasNative(r)
        /\ req[r].native = req[r].tier_a_result
        /\ Len(req[r].native.segments) = 2
        /\ req[r].native.segments[1].end < req[r].native.segments[2].end

\* The download of request r wrote a zero-byte file and download_audio has
\* examined it.
ZeroByteDownload(r) ==
    /\ \E f \in req[r].created : f.empty
    /\ req[r].pc \notin {"download", "download_check"}

FirstIn(k, S) ==
    /\ k \in 1..Len(languages)
    /\ languages[k] \in S
    /\ \A j \in 1..(k - 1) : languages[j] \notin S

\* C6: tier A selects the manually created track of the first preferred
\* language that has one, whatever auto-generated tracks exist; it selects an
\* auto-generated track only when no preferred language has a manual track,
\* and then that of the first preferred language that has one.
C6_ManualAcrossListBeforeGenerated ==
    spc = "done" =>
        /\ \A k \in 1..Len(languages) :
              FirstIn(k, manual_tracks) => selected = Track("manual", languages[k])
        /\ \A k \in 1..Len(languages) :
              (/\ \A j \in 1..Len(languages) : languages[j] \notin manual_tracks
               /\ FirstIn(k, generated_tracks))
              => selected = Track("generated", languages[k])
        /\ (selected # None /\ selected.kind = "generated")
              => \A j \in 1..Len(languages) : languages[j] \notin manual_tracks

\* C6 witness: preferred ["es", "en"], an auto-generated "es" track and a
\* manual "en" track; the manual "en" track was selected.
C6_Witness ==
    /\ spc = "done"
    /\ languages = <<LangEs, LangEn>>
    /\ LangEs \in generated_tracks /\ LangEs \notin manual_tracks
    /\ LangEn \in manual_tracks
    /\ selected = Track("manual", LangEn)

(***************************************************************************)
(* Properties of tier B selection (SpecTierB).                             *)
(***************************************************************************)
available_subs == merged_keys(subtitles, automatic_captions)

\* Preferred language k has an available track: its own tag, or a tag that
\* starts with it.
HasMatch(k) ==
    \/ languages[k] \in Range(available_subs)
    \/ \E j \in 1..Len(available_subs) : startswith(available_subs[j], languages[k])

\* C8 as claimed: the first preferred language whose tag is exactly an
\* available tag is selected, even when an earlier preferred language has
\* only a regional-variant (prefix) match.
C8_ExactOfAnyBeforePrefix ==
    spc = "done" =>
        \A k \in 1..Len(languages) :
            FirstIn(k, Range(available_subs)) => selected = languages[k]

\* C8 amended: tier B scans the preferred languages in order and stops at the
\* first one that has an exact match or, failing that, a prefix match: it
\* selects the exact tag if available, else the first available tag (in dict
\* order) that starts with that language; with no match for any preferred
\* language it selects the first available tag; with nothing available, none.
C8_PerLanguageExactThenPrefix ==
    spc = "done" =>
        /\ available_subs = <<>> => selected = NoTag
        /\ \A k \in 1..Len(languages) :
              (HasMatch(k) /\ \A i \in 1..(k - 1) : ~HasMatch(i)) =>
                  IF languages[k] \in Range(available_subs)
                  THEN selected = languages[k]
                  ELSE \E j \in 1..Len(available_subs) :
                          /\ startswith(available_subs[j], languages[k])
                          /\ \A i \in 1..(j - 1) :
                                ~startswith(available_subs[i], languages[k])
                          /\ selected = available_subs[j]
        /\ (available_subs # <<>> /\ \A k \in 1..Len(languages) : ~HasMatch(k))
              => selected = available_subs[1]

\* C8 witness: preferred ["es", "en"], available "en" and "es-419"; the
\* prefix match "es-419" of the earlier language was selected.
C8_Witness ==
    /\ spc = "done"
    /\ languages = <<LangEs, LangEn>>
    /\ Range(available_subs) = {LangEn, LangEs419}
    /\ selected = LangEs419

(***************************************************************************)
(* Properties of the caption markup parser (SpecParse).                    *)
(***************************************************************************)
\* C9: no two consecutive segments of the parser's output hold the same text.
C9_NoConsecutiveDuplicateText ==
    (ppc = "done" /\ parsed # None) =>
        \A k \in 1..(Len(parsed.segments) - 1) :
            parsed.segments[k].text # parsed.segments[k + 1].text

\* C9 witness: three consecutive cues, each with one text line that cleans
\* to "a" (written in two different ways), parsed to a single segment.
C9_Witness ==
    /\ ppc = "done"
    /\ Len(content) = 6
    /\ \A k \in {1, 3, 5} : content[k].cue
    /\ \A k \in {2, 4, 6} : ~content[k].cue /\ clean_line(content[k].toks) = <<"a">>
    /\ content[2] # content[4]
    /\ parsed # None
    /\ Len(parsed.segments) = 1

\* C10 as claimed: the parser's segments are in non-decreasing order of start.
C10_SegmentsOrderedByStart ==
    (ppc = "done" /\ parsed # None) =>
        \A k \in 1..(Len(parsed.segments) - 1) :
            parsed.segments[k].start <= parsed.segments[k + 1].start

\* C11 as claimed: every segment of the parser's output has start <= end.
C11_SegmentStartLeEnd ==
    (ppc = "done" /\ parsed # None) =>
        \A k \in 1..Len(parsed.segments) :
            parsed.segments[k].start <= parsed.segments[k].end

\* Line j is a text line that is not blank after strip().
nonblank_text(j) == ~content[j].cue /\ strip(content[j].toks) # <<>>

\* Line j cleans to a text that is kept: not empty and not "&nbsp;".
kept_text(j) ==
    /\ nonblank_text(j)
    /\ clean_line(strip(content[j].toks)) \notin {<<>>, <<NbspTok>>}

\* The cue header at line k has a text line that is kept before the next
\* blank line or cue header.
cue_has_text(k) ==
    /\ content[k].cue
    /\ \E j \in (k + 1)..Len(content) :
          /\ \A i \in (k + 1)..j : nonblank_text(i)
          /\ kept_text(j)

\* C13: the parser returns None exactly when no cue of the markup has a
\* text that is kept, and otherwise a transcript with at least one segment.
C13_EmptyIffNoSegmentSurvives ==
    ppc = "done" =>
        /\ parsed = None <=> ~ \E k \in 1..Len(content) : cue_has_text(k)
        /\ parsed # None => Len(parsed.segments) >= 1

\* C13 witness: a cue whose only text line is "&nbsp;", parsed to None.
C13_Witness ==
    /\ ppc = "done"
    /\ Len(content) >= 2
    /\ content[1].cue
    /\ content[2] = TextLine(<<NbspTok>>)
    /\ parsed = None

(***************************************************************************)
(* Properties of the parser's loops (SpecScan).                            *)
(***************************************************************************)
\* The texts of the segments appended so far, in order.
scan_segment_texts == [n \in 1..Len(scan.segments) |-> scan.segments[n].text]

\* C32: the transcript's text is its segments' texts joined in order by
\* single spaces, and the second pass over the joined-text parts removes
\* nothing: the parts it keeps are the parts the segment-level test kept,
\* which are the segments' texts.
C32_TextIsJoinedSegmentTexts ==
    /\ scan.pc \in {"outer", "inner", "done"} =>
          scan.full_text_parts = scan_segment_texts
    /\ (scan.pc = "done" /\ parsed # None) =>
          /\ parsed.segments = scan.segments
          /\ parsed.text = join(scan_segment_texts)
          /\ scan.unique_parts = scan.full_text_parts

\* C32 witness: two cues one after the other with the same cleaned text, the
\* second dropped by the segment-level test, parsed to one segment.
C32_Witness ==
    /\ scan.pc = "done"
    /\ content = <<CueLine(TimeA, TimeB), TextLine(<<"a">>),
                   CueLine(TimeC, TimeA), TextLine(<<TagTok, "a", SpaceTok>>)>>
    /\ parsed # None
    /\ parsed.text = <<"a">>
    /\ Len(parsed.segments) = 1

\* The number of text lines after the cue header at line k, up to the next
\* blank line or cue header.
block_len(k) ==
    Cardinality({j \in (k + 1)..Len(content) : \A m \in (k + 1)..j : nonblank_text(m)})

\* Those lines cleaned, without the ones that clean to the empty string or
\* to "&nbsp;".
block_kept(k) ==
    SelectSeq([m \in 1..block_len(k) |-> clean_line(strip(content[k + m].toks))],
              LAMBDA t : t \notin {<<>>, <<NbspTok>>})

\* C33: every segment has a text that is not empty; it comes from one cue
\* header and its text is that cue's kept lines, up to the next blank line or
\* cue header, joined; a cue none of whose lines is kept gives no segment,
\* and no cue header gives two segments.
C33_SegmentsHaveTextOfOneCue ==
    scan.pc \in {"outer", "inner", "done"} =>
        /\ Len(scan.origin) = Len(scan.segments)
        /\ \A n \in 1..Len(scan.segments) :
              /\ scan.segments[n].text # <<>>
              /\ scan.origin[n] \in scan.headers
              /\ content[scan.origin[n]].cue
              /\ block_kept(scan.origin[n]) # <<>>
              /\ scan.segments[n].text = join(block_kept(scan.origin[n]))
              /\ \A m \in 1..(n - 1) : scan.origin[m] < scan.origin[n]

\* C33 witness: a cue whose only line is "&nbsp;" and a cue of one line
\* "a", parsed to the one segment of the second cue.
C33_Witness ==
    /\ scan.pc = "done"
    /\ content = <<CueLine(TimeA, TimeB), TextLine(<<NbspTok>>),
                   CueLine(TimeC, TimeA), TextLine(<<"a">>)>>
    /\ scan.headers = {1, 3}
    /\ scan.origin = <<3>>
    /\ parsed # None
    /\ parsed.segments = <<TranscriptionSegment(62000, 1000, <<"a">>)>>

\* The lines of the markup that are cue headers.
cue_headers == {k \in 1..Len(content) : content[k].cue}

\* What is left of the scan: two for every line from the index on, one more
\* inside a cue block, one more until the return.
scan_variant ==
    2 * (Len(content) + 1 - scan.i)
        + (IF scan.pc = "inner" THEN 1 ELSE 0)
        + (IF scan.pc = "done" THEN 0 ELSE 1)

\* C34: the scan of every markup ends: every pass of either loop advances
\* the line index or leaves the cue block, so what is left of the scan gets
\* smaller with every step and is never negative (in every position before
\* the return one of ScanOuter, ScanInner and ScanReturn can be taken); and
\* when it has ended every cue header of the markup has been read as a cue
\* header, one that directly follows another cue header included.
C34_ScanTerminates ==
    [][scan.pc # "call" =>
          /\ scan_variant' < scan_variant
          /\ scan_variant' >= 0
          /\ scan'.pc = "done" => (scan.headers = cue_headers)']_vars

\* C34 witness: a cue header directly followed by another cue header and its
\* text; the scan has ended with both read as cue headers and the segment of
\* the second.
C34_Witness ==
    /\ scan.pc = "done"
    /\ Len(content) >= 3
    /\ content[1].cue /\ content[2].cue
    /\ kept_text(3)
    /\ {1, 2} \subseteq scan.headers
    /\ scan.origin = <<2>>

(***************************************************************************)
(* Properties of the identifier resolver (SpecId).                         *)
(***************************************************************************)
\* The identifier the URL was built around.
referenced_id(u) == u[CHOOSE k \in 1..Len(u) : u[k] \in IdAtoms].w

\* C14 as claimed: whichever accepted shape references an identifier, with
\* or without one more path segment or query parameter, extract_video_id
\* returns that identifier.
C14_SameIdentifierForEveryShape ==
    ipc = "done" => id_result = referenced_id(id_url)

(***************************************************************************)
(* Properties of the age-based sweep (SpecSweep).                          *)
(***************************************************************************)
\* C15 as claimed: after a sweep with max_age_hours = 0 has returned, no
\* file remains in the directory, whatever the files' modification times
\* (a file whose removal failed aside).
C15_ZeroThresholdDeletesEverything ==
    (sweep.pc = "done" /\ sweep.max_age_hours = 0) =>
        \A f \in disk : Path(f) \in sweep.failed

\* The age the sweep computes for the file of this path.
age_of(file_path) == sweep.current_time - mtimes[file_path.id]

\* C16: a sweep with max_age_hours > 0 deletes only files older than
\* max_age_hours hours (every file it deleted is older, so a file that is
\* not older is left to the others), and the count it holds, which it
\* returns at the end, is the number of files it deleted.
C16_OnlyOlderFilesDeleted ==
    (sweep.pc \notin {"off", "start"} /\ sweep.max_age_hours > 0) =>
        /\ \A file_path \in sweep.unlinked :
              /\ age_of(file_path) > sweep.max_age_hours * 3600
              /\ ~exists(disk, file_path)
        /\ sweep.deleted_count = Cardinality(sweep.unlinked)

\* C16 witness: a sweep with a threshold of one hour returned having deleted
\* one file and left a file exactly one hour old in place.
C16_Witness ==
    /\ sweep.pc = "done"
    /\ sweep.max_age_hours = 1
    /\ sweep.deleted_count = 1
    /\ \E f \in disk : age_of(Path(f)) = 3600
    /\ sweep.vanished = {}

\* C17 as claimed: the sweep never raises, whenever a concurrent cleanup
\* deletes a file between the directory scan and the delete attempt.
C17_SweepNeverRaises == sweep.pc # "raised"

=============================================================================
